---- MODULE Spec2Model ----
(***************************************************************************)
(* A model of the healthcare multi-agent handlers: the mood, CGM and food  *)
(* handlers over the SQLite tables users, mood_logs, cgm_readings,         *)
(* food_logs and meal_plans.                                               *)
(*                                                                         *)
(* Conventions.                                                            *)
(*  - A text is a sequence of one-character strings, so that lower(),      *)
(*    strip() and the substring test are computed, not assumed.            *)
(*  - An optional value is <<>> (None) or <<v>>.                           *)
(*  - A decimal number is kept in tenths (an integer): 0.5 is 5, 95 is 950.*)
(*  - Time is counted in days; a row's timestamp is the clock at insert.   *)
(*  - last is the request and response of the last handler call.           *)
(***************************************************************************)
EXTENDS Integers, Sequences, FiniteSets, TLC

VARIABLES
    users,            \* users table: id -> profile (read-only to handlers)
    mood_logs,        \* rows [user_id, mood, timestamp]
    cgm_readings,     \* rows [user_id, glucose_reading, alert_flag, timestamp]
    food_logs,        \* rows [user_id, meal_description, calories, carbs, protein, fat, timestamp]
    meal_plans,       \* rows [user_id, plan_data, created_at]
    nutrition_cache,  \* lru_cache of analyze_nutrition_cached: <<key, content>>, most recent last
    answer_cache,     \* lru_cache of answer_query_cached: <<key, content>>, most recent last
    pg,               \* the Postgres tables the router's health score reads
    now,              \* the store's clock (CURRENT_TIMESTAMP / datetime('now')), in days
    last,             \* the last request and its response
    probe,            \* argument and result of the pure function under check
    conns             \* log requests in flight: each one's request, position and response

vars == <<users, mood_logs, cgm_readings, food_logs, meal_plans,
          nutrition_cache, answer_cache, pg, now, last, probe, conns>>

\* what belongs to the router alone
router == <<answer_cache, pg>>

tables == <<mood_logs, cgm_readings, food_logs, meal_plans>>

----------------------------------------------------------------------------
(* Bounds of the model *)

\* total number of rows the four log tables may hold
MaxRows == 2

\* clock values: an entry written at 0 is inside the 7-day window at 7
\* and outside it at 8
Times == {0, 7, 8}

----------------------------------------------------------------------------
(* Optional values *)

None == <<>>

Some(x) == <<x>>

----------------------------------------------------------------------------
(* Text: str.lower(), str.strip(), the `in` substring test *)

UpperChars == <<"A","B","C","D","E","F","G","H","I","J","K","L","M",
                "N","O","P","Q","R","S","T","U","V","W","X","Y","Z">>

LowerChars == <<"a","b","c","d","e","f","g","h","i","j","k","l","m",
                "n","o","p","q","r","s","t","u","v","w","x","y","z">>

LowerChar(c) ==
    IF \E i \in 1..26 : UpperChars[i] = c
    THEN LowerChars[CHOOSE i \in 1..26 : UpperChars[i] = c]
    ELSE c

Lower(s) == [i \in 1..Len(s) |-> LowerChar(s[i])]

IsSpace(c) == c \in {" ", "\n", "\t"}

Strip(s) ==
    IF \A i \in 1..Len(s) : IsSpace(s[i]) THEN <<>>
    ELSE LET first == CHOOSE i \in 1..Len(s) :
                         ~IsSpace(s[i]) /\ \A j \in 1..(i-1) : IsSpace(s[j])
             final == CHOOSE i \in 1..Len(s) :
                         ~IsSpace(s[i]) /\ \A j \in (i+1)..Len(s) : IsSpace(s[j])
         IN  SubSeq(s, first, final)

\* Python's `a in b` on two str
Contains(b, a) ==
    \E i \in 0..(Len(b) - Len(a)) : SubSeq(b, i + 1, i + Len(a)) = a

----------------------------------------------------------------------------
(* The users table *)

\* ids of the rows of users; handlers are also called with 0 (falsy) and
\* with NoUser, an id no row of users has
UserIds == {1, 2}

NoUser == 3

UserIdInputs == {0} \cup UserIds \cup {NoUser}

\* baseline ranges written by the seeding script, and one wider range that
\* the schema admits as well
SeededProfiles ==
    { [min |-> 80,  max |-> 120, diabetic |-> FALSE],
      [min |-> 85,  max |-> 135, diabetic |-> FALSE],
      [min |-> 100, max |-> 180, diabetic |-> TRUE] }

WideProfile == [min |-> 70, max |-> 340, diabetic |-> TRUE]

----------------------------------------------------------------------------
(* Arithmetic helpers *)

Max(a, b) == IF a >= b THEN a ELSE b

Min(a, b) == IF a <= b THEN a ELSE b

RECURSIVE Sum(_)
Sum(s) == IF s = <<>> THEN 0 ELSE Head(s) + Sum(Tail(s))

\* round(num / den) to an integer, ties to even, as Python's round() does on
\* a value it represents exactly; num >= 0, den > 0
RoundHalfEven(num, den) ==
    LET q == num \div den
        r == num % den
    IN  IF 2 * r < den THEN q
        ELSE IF 2 * r > den THEN q + 1
        ELSE IF q % 2 = 0 THEN q ELSE q + 1

\* ORDER BY timestamp DESC as SQLite's sorter returns it: rows of equal
\* timestamp stay in insertion order
RECURSIVE InsertDesc(_, _)
InsertDesc(x, sorted) ==
    IF sorted = <<>> THEN <<x>>
    ELSE IF Head(sorted).timestamp <= x.timestamp THEN <<x>> \o sorted
    ELSE <<Head(sorted)>> \o InsertDesc(x, Tail(sorted))

RECURSIVE OrderDesc(_)
OrderDesc(rows) ==
    IF rows = <<>> THEN <<>>
    ELSE InsertDesc(Head(rows), OrderDesc(Tail(rows)))

----------------------------------------------------------------------------
(* Python floats: a double as its integer part and its binary places *)

\* floor(log2(q)), q >= 1
RECURSIVE Log2Floor(_)
Log2Floor(q) == IF q < 2 THEN 0 ELSE 1 + Log2Floor(q \div 2)

\* the position of the first 1 among the binary places of r / m, 0 < r < m
RECURSIVE LeadPos(_, _)
LeadPos(r, m) == IF 2 * r >= m THEN 1 ELSE 1 + LeadPos(2 * r, m)

\* the number of binary places in the 53-bit significand of a double whose
\* integer part is i and whose fraction starts as r / m does
FracBits(i, r, m) ==
    IF i >= 1 THEN 52 - Log2Floor(i)
    ELSE IF r = 0 THEN 0 ELSE 52 + LeadPos(r, m)

\* 2^e modulo m
RECURSIVE Pow2Mod(_, _)
Pow2Mod(e, m) ==
    IF e = 0 THEN 1 % m
    ELSE LET h == Pow2Mod(e \div 2, m)
         IN  (h * h * (IF e % 2 = 1 THEN 2 ELSE 1)) % m

\* the first k binary places of r / m and the remainder after them, by long
\* division: the remainder after j places is r * 2^j modulo m
DivBits(r, m, k) ==
    [bits |-> [j \in 1..k |-> (2 * ((r * Pow2Mod(j - 1, m)) % m)) \div m],
     rem |-> (r * Pow2Mod(k, m)) % m]

\* one unit in the last place more: the carry runs up to the last 0
Incr(v) ==
    LET zeros == {i \in 1..Len(v.bits) : v.bits[i] = 0}
    IN  IF zeros = {}
        THEN [int |-> v.int + 1, bits |-> [i \in 1..Len(v.bits) |-> 0]]
        ELSE LET last0 == CHOOSE i \in zeros : \A j \in zeros : j <= i
             IN  [int |-> v.int,
                  bits |-> [i \in 1..Len(v.bits) |->
                               IF i < last0 THEN v.bits[i]
                               ELSE IF i = last0 THEN 1 ELSE 0]]

\* round to nearest, ties to even: v is the value cut off, guard the first
\* place dropped, sticky whether anything lies beyond it
RoundEven(v, guard, sticky) ==
    LET odd == IF v.bits = <<>> THEN v.int % 2 = 1 ELSE v.bits[Len(v.bits)] = 1
    IN  IF guard = 1 /\ (sticky \/ odd) THEN Incr(v) ELSE v

\* x / m on two ints, x >= 0 and m > 0: the double nearest to the quotient
TrueDiv(x, m) ==
    LET i == x \div m
        r == x % m
        places == DivBits(r, m, FracBits(i, r, m))
    IN  RoundEven([int |-> i, bits |-> places.bits],
                  (2 * places.rem) \div m, (2 * places.rem) % m > 0)

\* an exact sum rounded to the places its own integer part leaves
Fit(v) ==
    LET k == IF v.int >= 1 THEN 52 - Log2Floor(v.int) ELSE Len(v.bits)
        n == Len(v.bits)
    IN  IF n <= k THEN v
        ELSE RoundEven([int |-> v.int, bits |-> SubSeq(v.bits, 1, k)],
                       v.bits[k + 1], \E j \in (k + 2)..n : v.bits[j] = 1)

\* v + c for an int c >= 0
FloatAddInt(v, c) == Fit([int |-> v.int + c, bits |-> v.bits])

\* v - c for an int c with 0 <= c <= v: the difference is a multiple of v's
\* last place and smaller than v, so it is a double and nothing is rounded
FloatSubInt(v, c) == [int |-> v.int - c, bits |-> v.bits]

\* v with its first binary place set, for a v that may hold no place
FirstPlace(v) == IF v.bits = <<>> THEN <<0>> ELSE v.bits

\* v + 0.5
FloatAddHalf(v) ==
    IF FirstPlace(v)[1] = 0
    THEN Fit([int |-> v.int, bits |-> [FirstPlace(v) EXCEPT ![1] = 1]])
    ELSE Fit([int |-> v.int + 1, bits |-> [FirstPlace(v) EXCEPT ![1] = 0]])

\* v - 0.5 for v >= 0.5: exact, as FloatSubInt is
FloatSubHalf(v) ==
    IF FirstPlace(v)[1] = 1
    THEN [int |-> v.int, bits |-> [FirstPlace(v) EXCEPT ![1] = 0]]
    ELSE [int |-> v.int - 1, bits |-> [FirstPlace(v) EXCEPT ![1] = 1]]

BitAt(bits, j) == IF j <= Len(bits) THEN bits[j] ELSE 0

\* a < b on two doubles
FloatLess(a, b) ==
    \/ a.int < b.int
    \/ /\ a.int = b.int
       /\ \E j \in 1..Max(Len(a.bits), Len(b.bits)) :
              /\ BitAt(a.bits, j) < BitAt(b.bits, j)
              /\ \A h \in 1..(j - 1) : BitAt(a.bits, h) = BitAt(b.bits, h)

----------------------------------------------------------------------------
(* The store *)

\* the window of get_mood_history / get_cgm_history, in days
HistoryDays == 7

TotalRows == Len(mood_logs) + Len(cgm_readings) + Len(food_logs) + Len(meal_plans)

\* the request and response of a handler call; at is the time of the call
\* and store_ok is whether every
\* statement the call sent to the store succeeded
Call(agent, action, u, arg, store_ok, resp) ==
    [agent |-> agent, action |-> action, user_id |-> u, arg |-> arg,
     at |-> now, store_ok |-> store_ok, resp |-> resp]

NoCall ==
    [agent |-> "none", action |-> "none", user_id |-> 0, arg |-> None,
     at |-> 0, store_ok |-> TRUE, resp |-> [success |-> FALSE]]

Failure(error) == [success |-> FALSE, error |-> error]

----------------------------------------------------------------------------
(* CGM handler: cgm_agent.py *)

normal_range_low == 80

normal_range_high == 180

critical_low == 70

critical_high == 300

\* the absolute bounds of generate_realistic_reading and of the 'log' range check
AbsoluteLow == 60

AbsoluteHigh == 350

\* the breakpoint 70 taken into the lowest band
get_glucose_status_LowInclusive(reading) ==
    IF reading <= 70 THEN "critically_low"
    ELSE IF reading < 80 THEN "low"
    ELSE IF reading <= 140 THEN "normal"
    ELSE IF reading <= 180 THEN "elevated"
    ELSE IF reading <= 250 THEN "high"
    ELSE "critically_high"

get_glucose_status(reading) ==
    IF reading < 70 THEN "critically_low"
    ELSE IF reading < 80 THEN "low"
    ELSE IF reading <= 140 THEN "normal"
    ELSE IF reading <= 180 THEN "elevated"
    ELSE IF reading <= 250 THEN "high"
    ELSE "critically_high"

\* get_user_baseline: the user's row, or the normal range when the user is
\* unknown or the store raises
get_user_baseline(user_id, storeOk) ==
    IF storeOk /\ user_id \in DOMAIN users
    THEN users[user_id]
    ELSE [min |-> normal_range_low, max |-> normal_range_high, diabetic |-> FALSE]

\* generate_realistic_reading, its random draws given: base is
\* randint(min, max), variation is randint(-20, 30), excursion is
\* random() < 0.2 and spike is randint(20, 60)
generate_realistic_reading(profile, base, variation, excursion, spike) ==
    LET reading == Max(AbsoluteLow, Min(AbsoluteHigh, base + variation))
    IN  IF profile.diabetic /\ excursion THEN reading + spike ELSE reading

\* the alert flag taken from the display band 70..180
StoredAlertFlag_DisplayBand(glucose_reading) ==
    glucose_reading < critical_low \/ glucose_reading > normal_range_high

\* the alert flag log_cgm_reading stores with the row
StoredAlertFlag(glucose_reading) ==
    glucose_reading < critical_low \/ glucose_reading > critical_high

\* the alert flag process() puts in the response
ResponseAlertFlag(glucose_reading) ==
    glucose_reading < critical_low \/ glucose_reading > critical_high

CgmRow(user_id, glucose_reading) ==
    [user_id |-> user_id, glucose_reading |-> glucose_reading,
     alert_flag |-> StoredAlertFlag(glucose_reading), timestamp |-> now]

\* the table after an INSERT OR REPLACE keyed by the user: the user's
\* earlier readings are gone
log_cgm_reading_KeepLatest(user_id, glucose_reading) ==
    LET Others(row) == row.user_id # user_id
    IN  Append(SelectSeq(cgm_readings, Others), CgmRow(user_id, glucose_reading))

\* log_cgm_reading: the table after the INSERT (SQLite does not enforce the
\* foreign key: the connection never turns PRAGMA foreign_keys on)
log_cgm_reading(user_id, glucose_reading) ==
    Append(cgm_readings, CgmRow(user_id, glucose_reading))

\* the history with the age of each reading in it
get_cgm_history_WithAge(user_id, storeOk) ==
    IF ~storeOk THEN <<>>
    ELSE LET InWindow(row) ==
                 row.user_id = user_id /\ row.timestamp >= now - HistoryDays
             rows == OrderDesc(SelectSeq(cgm_readings, InWindow))
         IN  [i \in 1..Len(rows) |->
                 [glucose_reading |-> rows[i].glucose_reading,
                  alert_flag |-> rows[i].alert_flag,
                  timestamp |-> rows[i].timestamp,
                  age |-> now - rows[i].timestamp,
                  status |-> get_glucose_status(rows[i].glucose_reading)]]

\* get_cgm_history: the user's readings of the last 7 days, most recent first
get_cgm_history(user_id, storeOk) ==
    IF ~storeOk THEN <<>>
    ELSE LET InWindow(row) ==
                 row.user_id = user_id /\ row.timestamp >= now - HistoryDays
             rows == OrderDesc(SelectSeq(cgm_readings, InWindow))
         IN  [i \in 1..Len(rows) |->
                 [glucose_reading |-> rows[i].glucose_reading,
                  alert_flag |-> rows[i].alert_flag,
                  timestamp |-> rows[i].timestamp,
                  status |-> get_glucose_status(rows[i].glucose_reading)]]

\* the trend of calculate_cgm_stats: the mean of the first half against the
\* mean of the rest, both Python floats; a mean under 15 less 15 is negative
\* and no mean lies below it
CgmTrend(readings) ==
    IF Len(readings) >= 4
    THEN LET n == Len(readings)
             mid_point == n \div 2
             recent_avg == TrueDiv(Sum(SubSeq(readings, 1, mid_point)), mid_point)
             older_avg == TrueDiv(Sum(SubSeq(readings, mid_point + 1, n)), n - mid_point)
         IN  IF FloatLess(FloatAddInt(older_avg, 15), recent_avg)
             THEN "rising"
             ELSE IF older_avg.int >= 15 /\ FloatLess(recent_avg, FloatSubInt(older_avg, 15))
             THEN "falling"
             ELSE "stable"
    ELSE "stable"

\* calculate_cgm_stats; average_reading and time_in_range in tenths
calculate_cgm_stats(cgm_history) ==
    IF cgm_history = <<>>
    THEN [average_reading |-> 0, time_in_range |-> 0, total_readings |-> 0,
          trend |-> "stable", alerts |-> 0]
    ELSE LET readings == [i \in 1..Len(cgm_history) |-> cgm_history[i].glucose_reading]
             InRange(reading) == 70 <= reading /\ reading <= 180
             Alerting(entry) == entry.alert_flag
         IN  [average_reading |-> RoundHalfEven(10 * Sum(readings), Len(readings)),
              time_in_range |-> RoundHalfEven(1000 * Len(SelectSeq(readings, InRange)), Len(readings)),
              total_readings |-> Len(readings),
              trend |-> CgmTrend(readings),
              alerts |-> Len(SelectSeq(cgm_history, Alerting))]

\* get_reading_response: the message template is chosen by the status
get_reading_response(reading, status, alert_flag) ==
    [template |-> status, reading |-> reading]

\* get_recommendations: the canned list is chosen by the status
get_recommendations(reading, status) ==
    IF status \in {"high", "critically_high"} THEN "high_advice"
    ELSE IF status \in {"critically_low", "low", "normal", "elevated"} THEN status
    ELSE "none"

\* the success response of 'log' and of 'generate'
CgmReadingResponse(reading) ==
    LET status == get_glucose_status(reading)
        alert_flag == ResponseAlertFlag(reading)
    IN  [success |-> TRUE,
         message |-> get_reading_response(reading, status, alert_flag),
         glucose_reading |-> reading,
         status |-> status,
         alert_flag |-> alert_flag,
         recommendations |-> get_recommendations(reading, status)]

\* the range check with the upper bound left out
ReadingInRange_NoUpperBound(glucose_reading) ==
    AbsoluteLow <= glucose_reading

\* the range check of the 'log' action
ReadingInRange(glucose_reading) ==
    AbsoluteLow <= glucose_reading /\ glucose_reading <= AbsoluteHigh

\* process(action='log'); glucose_reading is optional, insertOk is whether
\* the INSERT succeeds
CgmLog(user_id, glucose_reading, insertOk) ==
    LET arg == glucose_reading
        Reply(ok, resp) == last' = Call("cgm", "log", user_id, arg, ok, resp)
    IN  /\ IF user_id = 0
           THEN /\ Reply(TRUE, Failure("missing_user_id"))
                /\ UNCHANGED cgm_readings
           ELSE IF glucose_reading = None
           THEN /\ Reply(TRUE, Failure("missing_reading"))
                /\ UNCHANGED cgm_readings
           ELSE IF ~ReadingInRange(glucose_reading[1])
           THEN /\ Reply(TRUE, Failure("invalid_range"))
                /\ UNCHANGED cgm_readings
           ELSE IF ~insertOk
           THEN /\ Reply(FALSE, Failure("database_error"))
                /\ UNCHANGED cgm_readings
           ELSE /\ cgm_readings' = log_cgm_reading(user_id, glucose_reading[1])
                /\ Reply(TRUE, CgmReadingResponse(glucose_reading[1]))
        /\ UNCHANGED <<users, conns, router, mood_logs, food_logs, meal_plans, nutrition_cache, now, probe>>

\* process(action='generate')
CgmGenerate(user_id, base, variation, excursion, spike, readOk, insertOk) ==
    LET Reply(ok, resp) == last' = Call("cgm", "generate", user_id, None, ok, resp)
        profile == get_user_baseline(user_id, readOk)
        generated_reading ==
            generate_realistic_reading(profile, base, variation, excursion, spike)
    IN  /\ IF user_id = 0
           THEN /\ Reply(TRUE, Failure("missing_user_id"))
                /\ UNCHANGED cgm_readings
           ELSE /\ base \in profile.min..profile.max
                /\ IF ~insertOk
                   THEN /\ Reply(FALSE, Failure("database_error"))
                        /\ UNCHANGED cgm_readings
                   ELSE /\ cgm_readings' = log_cgm_reading(user_id, generated_reading)
                        /\ Reply(readOk, CgmReadingResponse(generated_reading))
        /\ UNCHANGED <<users, conns, router, mood_logs, food_logs, meal_plans, nutrition_cache, now, probe>>

\* process(action='get_stats')
CgmGetStats(user_id, readOk) ==
    LET Reply(ok, resp) == last' = Call("cgm", "get_stats", user_id, None, ok, resp)
        cgm_history == get_cgm_history(user_id, readOk)
        cgm_stats == calculate_cgm_stats(cgm_history)
    IN  /\ IF user_id = 0
           THEN Reply(TRUE, Failure("missing_user_id"))
           ELSE Reply(readOk, [success |-> TRUE, cgm_stats |-> cgm_stats,
                       cgm_history |-> cgm_history])
        /\ UNCHANGED <<users, conns, router, tables, nutrition_cache, now, probe>>

\* process() with an action that is none of the three
CgmInvalidAction(user_id) ==
    /\ last' = Call("cgm", "other", user_id, None, TRUE,
                    IF user_id = 0 THEN Failure("missing_user_id")
                    ELSE Failure("invalid_action"))
    /\ UNCHANGED <<users, conns, router, tables, nutrition_cache, now, probe>>

----------------------------------------------------------------------------
(* Mood handler: mood_tracker_agent.py *)

\* self.mood_values, in the order of the dict
mood_values ==
    << [mood |-> <<"h","a","p","p","y">>, score |-> 3],
       [mood |-> <<"t","i","r","e","d">>, score |-> 2],
       [mood |-> <<"a","n","x","i","o","u","s">>, score |-> 2],
       [mood |-> <<"c","a","l","m">>, score |-> 1],
       [mood |-> <<"s","a","d">>, score |-> 1],
       [mood |-> <<"a","n","g","r","y">>, score |-> 1] >>

\* `mood in self.mood_values`
IsMoodKey(mood) == \E i \in 1..Len(mood_values) : mood_values[i].mood = mood

\* self.mood_values.get(mood, default)
mood_values_get(mood, default) ==
    IF IsMoodKey(mood)
    THEN mood_values[CHOOSE i \in 1..Len(mood_values) : mood_values[i].mood = mood].score
    ELSE default

\* the validation of the 'log' action: mood.lower() in self.mood_values
ValidMood(mood) == IsMoodKey(Lower(mood))

\* the INSERT storing the mood as it was typed
log_mood_AsTyped(user_id, mood) ==
    Append(mood_logs, [user_id |-> user_id, mood |-> mood, timestamp |-> now])

\* the INSERT that is never committed
log_mood_Uncommitted(user_id, mood) == mood_logs

\* the INSERT that overwrites the row the user logged last
log_mood_OverLast(user_id, mood) ==
    LET Mine == {i \in 1..Len(mood_logs) : mood_logs[i].user_id = user_id}
        row == [user_id |-> user_id, mood |-> Lower(mood), timestamp |-> now]
    IN  IF Mine = {} THEN Append(mood_logs, row)
        ELSE [mood_logs EXCEPT ![CHOOSE i \in Mine : \A j \in Mine : j <= i] = row]

\* log_mood: the table after the INSERT, which stores mood.lower()
log_mood(user_id, mood) ==
    Append(mood_logs, [user_id |-> user_id, mood |-> Lower(mood), timestamp |-> now])

\* the history without the entries of the current instant
get_mood_history_BeforeNow(user_id, logs, storeOk) ==
    IF ~storeOk THEN <<>>
    ELSE LET InWindow(row) ==
                 /\ row.user_id = user_id
                 /\ row.timestamp >= now - HistoryDays
                 /\ row.timestamp < now
             rows == OrderDesc(SelectSeq(logs, InWindow))
         IN  [i \in 1..Len(rows) |->
                 [mood |-> rows[i].mood,
                  timestamp |-> rows[i].timestamp,
                  score |-> mood_values_get(rows[i].mood, 3)]]

\* get_mood_history: the user's moods of the last 7 days, most recent first
get_mood_history(user_id, logs, storeOk) ==
    IF ~storeOk THEN <<>>
    ELSE LET InWindow(row) ==
                 row.user_id = user_id /\ row.timestamp >= now - HistoryDays
             rows == OrderDesc(SelectSeq(logs, InWindow))
         IN  [i \in 1..Len(rows) |->
                 [mood |-> rows[i].mood,
                  timestamp |-> rows[i].timestamp,
                  score |-> mood_values_get(rows[i].mood, 3)]]

\* the trend of calculate_mood_stats: recent_avg against older_avg +- 0.5,
\* all of them Python floats; the scores are 1 or more, so is older_avg
MoodTrend(scores) ==
    IF Len(scores) >= 4
    THEN LET n == Len(scores)
             mid_point == n \div 2
             recent_avg == TrueDiv(Sum(SubSeq(scores, 1, mid_point)), mid_point)
             older_avg == TrueDiv(Sum(SubSeq(scores, mid_point + 1, n)), n - mid_point)
         IN  IF FloatLess(FloatAddHalf(older_avg), recent_avg)
             THEN "improving"
             ELSE IF FloatLess(recent_avg, FloatSubHalf(older_avg))
             THEN "declining"
             ELSE "stable"
    ELSE "stable"

\* max(mood_counts.items(), key=count)[0]: the first mood, in the order of
\* first occurrence, whose count is the largest
DominantMood(mood_history) ==
    LET CountOf(m) == Cardinality({j \in 1..Len(mood_history) : mood_history[j].mood = m})
        first == CHOOSE i \in 1..Len(mood_history) :
                    /\ \A j \in 1..Len(mood_history) :
                          CountOf(mood_history[j].mood) <= CountOf(mood_history[i].mood)
                    /\ \A j \in 1..(i - 1) :
                          CountOf(mood_history[j].mood) < CountOf(mood_history[i].mood)
    IN  mood_history[first].mood

\* calculate_mood_stats; average_score in tenths
calculate_mood_stats(mood_history) ==
    IF mood_history = <<>>
    THEN [average_score |-> 30, trend |-> "stable",
          dominant_mood |-> <<"n","e","u","t","r","a","l">>, total_entries |-> 0]
    ELSE LET scores == [i \in 1..Len(mood_history) |-> mood_history[i].score]
         IN  [average_score |-> RoundHalfEven(10 * Sum(scores), Len(scores)),
              trend |-> MoodTrend(scores),
              dominant_mood |-> DominantMood(mood_history),
              total_entries |-> Len(mood_history)]

\* mood_history[-7:]
LastSeven(history) ==
    SubSeq(history, Max(1, Len(history) - 6), Len(history))

\* process(action='log'); an absent mood is the empty text; insertOk and
\* readOk are whether the INSERT and the SELECT that follows it succeed
MoodLog(user_id, mood, insertOk, readOk) ==
    LET Reply(ok, resp) == last' = Call("mood", "log", user_id, mood, ok, resp)
    IN  /\ IF user_id = 0
           THEN /\ Reply(TRUE, Failure("missing_user_id"))
                /\ UNCHANGED mood_logs
           ELSE IF mood = <<>>
           THEN /\ Reply(TRUE, [success |-> FALSE, available_moods |-> TRUE])
                /\ UNCHANGED mood_logs
           ELSE IF ~ValidMood(mood)
           THEN /\ Reply(TRUE, [success |-> FALSE, available_moods |-> TRUE])
                /\ UNCHANGED mood_logs
           ELSE IF ~insertOk
           THEN /\ Reply(FALSE, Failure("database_error"))
                /\ UNCHANGED mood_logs
           ELSE /\ mood_logs' = log_mood(user_id, mood)
                /\ LET mood_history == get_mood_history(user_id, mood_logs', readOk)
                   IN  Reply(readOk, [success |-> TRUE,
                                 logged_mood |-> mood,
                                 mood_stats |-> calculate_mood_stats(mood_history),
                                 mood_history |-> LastSeven(mood_history)])
        /\ UNCHANGED <<users, conns, router, cgm_readings, food_logs, meal_plans, nutrition_cache, now, probe>>

\* process(action='get_stats')
MoodGetStats(user_id, readOk) ==
    LET Reply(ok, resp) == last' = Call("mood", "get_stats", user_id, None, ok, resp)
        mood_history == get_mood_history(user_id, mood_logs, readOk)
    IN  /\ IF user_id = 0
           THEN Reply(TRUE, Failure("missing_user_id"))
           ELSE Reply(readOk, [success |-> TRUE,
                       mood_stats |-> calculate_mood_stats(mood_history),
                       mood_history |-> mood_history])
        /\ UNCHANGED <<users, conns, router, tables, nutrition_cache, now, probe>>

\* process() with an action that is neither 'log' nor 'get_stats'
MoodInvalidAction(user_id) ==
    /\ last' = Call("mood", "other", user_id, None, TRUE,
                    IF user_id = 0 THEN Failure("missing_user_id")
                    ELSE Failure("invalid_action"))
    /\ UNCHANGED <<users, conns, router, tables, nutrition_cache, now, probe>>

----------------------------------------------------------------------------
(* Food handler: food_intake_agent.py *)

\* PREDEFINED_NUTRITION, in the order of the dict; values in tenths
PREDEFINED_NUTRITION ==
    <<
       [food |-> <<"a","p","p","l","e">>,
        calories |-> 950, protein |-> 5, carbohydrates |-> 250, fat |-> 3],
       [food |-> <<"b","a","n","a","n","a">>,
        calories |-> 1050, protein |-> 13, carbohydrates |-> 270, fat |-> 4],
       [food |-> <<"o","r","a","n","g","e">>,
        calories |-> 620, protein |-> 12, carbohydrates |-> 150, fat |-> 2],
       [food |-> <<"g","r","a","p","e">>,
        calories |-> 1040, protein |-> 11, carbohydrates |-> 270, fat |-> 6],
       [food |-> <<"s","t","r","a","w","b","e","r","r","y">>,
        calories |-> 490, protein |-> 10, carbohydrates |-> 120, fat |-> 5],
       [food |-> <<"b","l","u","e","b","e","r","r","y">>,
        calories |-> 840, protein |-> 11, carbohydrates |-> 210, fat |-> 5],
       [food |-> <<"s","p","i","n","a","c","h">>,
        calories |-> 70, protein |-> 9, carbohydrates |-> 11, fat |-> 1],
       [food |-> <<"b","r","o","c","c","o","l","i">>,
        calories |-> 550, protein |-> 37, carbohydrates |-> 110, fat |-> 6],
       [food |-> <<"c","a","r","r","o","t">>,
        calories |-> 250, protein |-> 6, carbohydrates |-> 60, fat |-> 2],
       [food |-> <<"t","o","m","a","t","o">>,
        calories |-> 220, protein |-> 10, carbohydrates |-> 50, fat |-> 2],
       [food |-> <<"c","h","i","c","k","e","n"," ","b","r","e","a","s","t">>,
        calories |-> 1650, protein |-> 310, carbohydrates |-> 0, fat |-> 36],
       [food |-> <<"s","a","l","m","o","n">>,
        calories |-> 2060, protein |-> 220, carbohydrates |-> 0, fat |-> 130],
       [food |-> <<"e","g","g">>,
        calories |-> 700, protein |-> 60, carbohydrates |-> 6, fat |-> 50],
       [food |-> <<"r","i","c","e">>,
        calories |-> 2050, protein |-> 43, carbohydrates |-> 450, fat |-> 4],
       [food |-> <<"b","r","e","a","d">>,
        calories |-> 800, protein |-> 30, carbohydrates |-> 150, fat |-> 10],
       [food |-> <<"p","a","s","t","a">>,
        calories |-> 2200, protein |-> 80, carbohydrates |-> 430, fat |-> 13],
       [food |-> <<"m","i","l","k">>,
        calories |-> 1030, protein |-> 80, carbohydrates |-> 120, fat |-> 24],
       [food |-> <<"y","o","g","u","r","t">>,
        calories |-> 1500, protein |-> 130, carbohydrates |-> 170, fat |-> 80],
       [food |-> <<"c","h","e","e","s","e">>,
        calories |-> 1130, protein |-> 70, carbohydrates |-> 10, fat |-> 90],
       [food |-> <<"n","u","t","s">>,
        calories |-> 1600, protein |-> 60, carbohydrates |-> 60, fat |-> 140],
       [food |-> <<"w","a","t","e","r">>,
        calories |-> 0, protein |-> 0, carbohydrates |-> 0, fat |-> 0],
       [food |-> <<"c","o","f","f","e","e">>,
        calories |-> 20, protein |-> 3, carbohydrates |-> 2, fat |-> 0],
       [food |-> <<"t","e","a">>,
        calories |-> 20, protein |-> 0, carbohydrates |-> 5, fat |-> 0],
       [food |-> <<"s","a","n","d","w","i","c","h">>,
        calories |-> 3500, protein |-> 150, carbohydrates |-> 450, fat |-> 120],
       [food |-> <<"s","a","l","a","d">>,
        calories |-> 1500, protein |-> 50, carbohydrates |-> 200, fat |-> 80],
       [food |-> <<"s","o","u","p">>,
        calories |-> 1200, protein |-> 60, carbohydrates |-> 180, fat |-> 40],
       [food |-> <<"f","r","u","i","t">>,
        calories |-> 800, protein |-> 10, carbohydrates |-> 200, fat |-> 5],
       [food |-> <<"v","e","g","e","t","a","b","l","e">>,
        calories |-> 250, protein |-> 10, carbohydrates |-> 50, fat |-> 2],
       [food |-> <<"p","r","o","t","e","i","n">>,
        calories |-> 1200, protein |-> 250, carbohydrates |-> 10, fat |-> 20],
       [food |-> <<"c","a","r","b">>,
        calories |-> 2000, protein |-> 40, carbohydrates |-> 450, fat |-> 10],
       [food |-> <<"f","a","t">>,
        calories |-> 450, protein |-> 5, carbohydrates |-> 1, fat |-> 50] >>

\* a Python float: a number (in tenths) or nan
Num(v) == [t |-> "num", v |-> v]

NaN == [t |-> "nan"]

\* a nutrition dict as analyze_nutrition returns it
Nutrition(calories, protein, carbohydrates, fat) ==
    [calories |-> calories, protein |-> protein,
     carbohydrates |-> carbohydrates, fat |-> fat]

\* the defaults of parse_nutrition_response and of the except branch of
\* analyze_nutrition_cached: 300, 20, 30, 10
DefaultNutrition == Nutrition(Num(3000), Num(200), Num(300), Num(100))

NutritionFields == {"calories", "protein", "carbohydrates", "fat"}

\* the lookup with exact matches only
get_predefined_nutrition_ExactOnly(meal_description) ==
    IF meal_description = <<>> THEN None
    ELSE LET description_lower == Strip(Lower(meal_description))
             n == Len(PREDEFINED_NUTRITION)
             Entry(i) == LET e == PREDEFINED_NUTRITION[i]
                         IN  Nutrition(Num(e.calories), Num(e.protein),
                                       Num(e.carbohydrates), Num(e.fat))
             Exact(i) == PREDEFINED_NUTRITION[i].food = description_lower
         IN  IF \E i \in 1..n : Exact(i)
             THEN Some(Entry(CHOOSE i \in 1..n : Exact(i)))
             ELSE None

\* get_predefined_nutrition: None, or the first entry the description
\* matches; an exact match is looked for before any partial match
get_predefined_nutrition(meal_description) ==
    IF meal_description = <<>> THEN None
    ELSE LET description_lower == Strip(Lower(meal_description))
             n == Len(PREDEFINED_NUTRITION)
             Entry(i) == LET e == PREDEFINED_NUTRITION[i]
                         IN  Nutrition(Num(e.calories), Num(e.protein),
                                       Num(e.carbohydrates), Num(e.fat))
             Exact(i) == PREDEFINED_NUTRITION[i].food = description_lower
             Partial(i) == \/ Contains(description_lower, PREDEFINED_NUTRITION[i].food)
                           \/ Contains(PREDEFINED_NUTRITION[i].food, description_lower)
         IN  IF \E i \in 1..n : Exact(i)
             THEN Some(Entry(CHOOSE i \in 1..n : Exact(i)))
             ELSE IF \E i \in 1..n : Partial(i)
             THEN Some(Entry(CHOOSE i \in 1..n :
                                Partial(i) /\ \A j \in 1..(i - 1) : ~Partial(j)))
             ELSE None

(* A reply of the generative-text service is kept by its shape:            *)
(*   [kind |-> "raise"]      generate_content raises                       *)
(*   [kind |-> "text"]       text with no JSON in it                       *)
(*   [kind |-> "nonobject"]  JSON that is not an object ([1, 2], 12, null) *)
(*   [kind |-> "object", wrapper, nested, fields]                          *)
(*        a JSON object; wrapper is "bare", "fenced" (inside ```json ```)  *)
(*        or "prose" (inside other text); nested is whether a nested       *)
(*        object precedes its closing brace; fields are its values for the *)
(*        four nutrition keys.                                             *)
(* A JSON value is [t |-> "missing"], "null", "num" (v), "str_num" (v, a   *)
(* string float() parses), "str_nan" (the string "nan"), "str" (any other  *)
(* string), "bool" (v, 1 for true and 0 for false), "list" or "nan" (the   *)
(* literal NaN, which json.loads accepts).                                 *)

JsonNum(v) == [t |-> "num", v |-> v]

\* the content analyze_nutrition_cached returns when the call raises
DefaultContent ==
    [kind |-> "object", wrapper |-> "bare", nested |-> FALSE,
     fields |-> Nutrition(JsonNum(3000), JsonNum(200), JsonNum(300), JsonNum(100))]

\* float(value): <<result>>, or None when it raises ValueError or TypeError
PyFloat(value) ==
    CASE value.t = "num" -> Some(Num(value.v))
      [] value.t = "str_num" -> Some(Num(value.v))
      [] value.t = "bool" -> Some(Num(10 * value.v))
      [] value.t \in {"str_nan", "nan"} -> Some(NaN)
      [] OTHER -> None

\* the validation loop of parse_nutrition_response over a decoded object
ValidateFields(fields) ==
    [f \in NutritionFields |->
        IF fields[f].t = "missing" THEN DefaultNutrition[f]
        ELSE IF PyFloat(fields[f]) = None THEN DefaultNutrition[f]
        ELSE PyFloat(fields[f])[1]]

\* parse_nutrition_response
parse_nutrition_response(content) ==
    IF content.kind = "object"
    THEN IF ~content.nested
         THEN \* re.search finds the object and json.loads decodes it
              ValidateFields(content.fields)
         ELSE IF content.wrapper \in {"bare", "fenced"}
         THEN \* the regex match is cut at the first }, the whole content decodes
              ValidateFields(content.fields)
         ELSE DefaultNutrition
    ELSE \* no JSON (JSONDecodeError) or not a dict (caught by except Exception)
         DefaultNutrition

\* @lru_cache(maxsize=128)
cache_maxsize == 128

CacheHas(key) == \E i \in 1..Len(nutrition_cache) : nutrition_cache[i].key = key

CacheGet(key) ==
    nutrition_cache[CHOOSE i \in 1..Len(nutrition_cache) : nutrition_cache[i].key = key].content

\* the cache after a hit (the entry becomes the most recent) or after a
\* miss (the least recent entry is dropped when the cache is full)
CachePut(key, content) ==
    LET NotKey(e) == e.key # key
        rest == SelectSeq(nutrition_cache, NotKey)
        kept == IF Len(rest) >= cache_maxsize THEN Tail(rest) ELSE rest
    IN  Append(kept, [key |-> key, content |-> content])

\* analyze_nutrition_cached: the content for the description, reply being
\* what the service answers if it is called
analyze_nutrition_cached(meal_description, reply) ==
    IF CacheHas(meal_description) THEN CacheGet(meal_description)
    ELSE IF reply.kind = "raise" THEN DefaultContent
    ELSE reply

\* analyze_nutrition: the nutrition dict, and whether the service was called
analyze_nutrition(meal_description, reply) ==
    LET predefined == get_predefined_nutrition(meal_description)
    IN  IF predefined # None
        THEN [result |-> predefined[1], llm_called |-> FALSE, cached |-> FALSE]
        ELSE [result |-> parse_nutrition_response(
                             analyze_nutrition_cached(meal_description, reply)),
              llm_called |-> ~CacheHas(meal_description),
              cached |-> TRUE]

\* a REAL column as SQLite stores a bound float: nan is stored as NULL
SqlReal(value) == IF value.t = "nan" THEN [t |-> "null"] ELSE value

\* the row of the INSERT; float(x) leaves the float analyze_nutrition
\* returned as it is (it is never None), nan included
FoodRow(user_id, meal_description, nutrition) ==
    [user_id |-> user_id, meal_description |-> meal_description,
     estimated_calories |-> SqlReal(nutrition.calories),
     estimated_carbs |-> SqlReal(nutrition.carbohydrates),
     estimated_protein |-> SqlReal(nutrition.protein),
     estimated_fat |-> SqlReal(nutrition.fat),
     timestamp |-> now]

\* food_intake_agent(action='log'); there is no user-id check
FoodLog(user_id, meal_description, reply, insertOk) ==
    LET Reply(ok, resp) == last' = Call("food", "log", user_id, meal_description, ok, resp)
        analysis == analyze_nutrition(meal_description, reply)
    IN  /\ IF meal_description = <<>>
           THEN /\ Reply(TRUE, [success |-> FALSE, nutrition_analysis |-> None])
                /\ UNCHANGED <<food_logs, nutrition_cache>>
           ELSE /\ nutrition_cache' =
                      IF analysis.cached
                      THEN CachePut(meal_description,
                                    analyze_nutrition_cached(meal_description, reply))
                      ELSE nutrition_cache
                /\ IF ~insertOk
                   THEN /\ Reply(FALSE, [success |-> FALSE, nutrition_analysis |-> None])
                        /\ UNCHANGED food_logs
                   ELSE /\ food_logs' = Append(food_logs,
                               FoodRow(user_id, meal_description, analysis.result))
                        /\ Reply(TRUE, [success |-> TRUE,
                                     meal_description |-> meal_description,
                                     nutrition_analysis |-> Some(analysis.result),
                                     llm_called |-> analysis.llm_called])
        /\ UNCHANGED <<users, conns, router, mood_logs, cgm_readings, meal_plans, now, probe>>

\* food_intake_agent(action='get_stats'): every row of the user, most
\* recent first
FoodGetStats(user_id, readOk) ==
    LET Mine(row) == row.user_id = user_id
        rows == OrderDesc(SelectSeq(food_logs, Mine))
    IN  /\ last' = Call("food", "get_stats", user_id, None, readOk,
                        IF readOk
                        THEN [success |-> TRUE, nutrition_analysis |-> Some(rows)]
                        ELSE [success |-> FALSE, nutrition_analysis |-> None])
        /\ UNCHANGED <<users, conns, router, tables, nutrition_cache, now, probe>>

\* food_intake_agent with an action that is neither 'log' nor 'get_stats'
FoodInvalidAction(user_id) ==
    /\ last' = Call("food", "other", user_id, None, TRUE,
                    [success |-> FALSE, nutrition_analysis |-> None])
    /\ UNCHANGED <<users, conns, router, tables, nutrition_cache, now, probe>>

----------------------------------------------------------------------------
(* Meal-plan handler: meal_planner_agent.py *)

(* A plan is kept by its structure: each of breakfast, lunch and dinner is *)
(*   [t |-> "absent"]   the key is not in the plan,                        *)
(*   [t |-> "nondict"]  the value is not a dict (a string, a list, null),  *)
(*   [t |-> "dict", name, description, estimated_nutrition]                *)
(*        a dict; each of the three is None when the dict lacks the key.   *)
(* Nutrition figures are whole numbers here. special_notes is kept by the  *)
(* list it is: "ai", "format", "error" (the three lists of                 *)
(* parse_meal_plan_response), "offline" (the fallback plan) or "reply"     *)
(* (whatever a JSON reply holds).                                          *)

MealTypes == {"breakfast", "lunch", "dinner"}

Nutrition5(calories, carbs, protein, fat, fiber) ==
    [calories |-> calories, carbs |-> carbs, protein |-> protein,
     fat |-> fat, fiber |-> fiber]

ZeroNutrition == Nutrition5(0, 0, 0, 0, 0)

MealDict(name, description, estimated_nutrition) ==
    [t |-> "dict", name |-> name, description |-> description,
     estimated_nutrition |-> estimated_nutrition]

\* daily_totals: the sum of the nutrition of the meals that have one
PlanTotals(breakfast, lunch, dinner) ==
    LET MealNutrition(meal) ==
            IF meal.t = "dict" /\ meal.estimated_nutrition # None
            THEN meal.estimated_nutrition[1] ELSE ZeroNutrition
        b == MealNutrition(breakfast)
        l == MealNutrition(lunch)
        d == MealNutrition(dinner)
    IN  Nutrition5(b.calories + l.calories + d.calories,
                   b.carbs + l.carbs + d.carbs,
                   b.protein + l.protein + d.protein,
                   b.fat + l.fat + d.fat,
                   b.fiber + l.fiber + d.fiber)

Plan(breakfast, lunch, dinner, daily_totals, special_notes) ==
    [breakfast |-> breakfast, lunch |-> lunch, dinner |-> dinner,
     daily_totals |-> daily_totals, special_notes |-> special_notes]

\* get_user_context: None for {} (no row of users, or the store failed),
\* else the fields the prompt and the fallback plan use; the recent moods,
\* readings and meals are read and not used afterwards
get_user_context(user_id, storeOk) ==
    IF storeOk /\ user_id \in DOMAIN users
    THEN Some([dietary_preference |-> users[user_id].dietary_preference,
               diabetic |-> users[user_id].diabetic])
    ELSE None

\* generate_fallback_meal_plan; is_diabetic is "Type 2 Diabetes" in
\* medical_conditions
generate_fallback_meal_plan(dietary_pref, is_diabetic) ==
    LET is_vegetarian == dietary_pref \in {"vegetarian", "vegan"}
        breakfast ==
            IF is_vegetarian
            THEN MealDict(Some("Overnight Oats with Berries"),
                          Some("Steel-cut oats soaked with almond milk"),
                          Some(Nutrition5(320, 45, 12, 12, 8)))
            ELSE MealDict(Some("Veggie Scramble"),
                          Some("Scrambled eggs with spinach, tomatoes, and herbs"),
                          Some(Nutrition5(280, 8, 18, 20, 3)))
        lunch ==
            IF is_vegetarian
            THEN MealDict(Some("Quinoa Buddha Bowl"),
                          Some("Quinoa with roasted vegetables"),
                          Some(Nutrition5(480, 65, 18, 16, 12)))
            ELSE IF is_diabetic
            THEN MealDict(Some("Grilled Fish Salad"),
                          Some("Lean Fish with mixed greens"),
                          Some(Nutrition5(420, 12, 35, 28, 8)))
            ELSE MealDict(Some("Grilled Chicken Salad"),
                          Some("Grilled Chicken with mixed greens"),
                          Some(Nutrition5(420, 12, 35, 28, 8)))
        dinner ==
            IF is_vegetarian
            THEN MealDict(Some("Lentil and Vegetable Curry"),
                          Some("Red lentil curry with mixed vegetables"),
                          Some(Nutrition5(420, 58, 16, 14, 15)))
            ELSE MealDict(Some("Baked Salmon with Roasted Vegetables"),
                          Some("Herb-crusted salmon with roasted broccoli"),
                          Some(Nutrition5(450, 25, 32, 24, 6)))
    IN  Plan(breakfast, lunch, dinner,
             Some(PlanTotals(breakfast, lunch, dinner)), "offline")

(* A reply of the generative-text service to the meal-plan prompt:         *)
(*   [kind |-> "raise"]  generate_content (or response.text) raises        *)
(*   [kind |-> "none"]   response.text is None                             *)
(*   [kind |-> "json", meals]                                              *)
(*        the text is one JSON object with at least one of the three meal  *)
(*        keys; meals gives each meal as "absent" (no key), "full" (a dict *)
(*        with name, description and estimated_nutrition), "partial" (a    *)
(*        dict with a name only) or "nondict"                              *)
(*   [kind |-> "text", meals, again, figures]                              *)
(*        any other text; meals gives for each meal what the text holds:   *)
(*        "absent" (no section names it), "bare" (a section of one line),  *)
(*        "sparse" (a section of several lines without a Nutrition: line)  *)
(*        or "full" (a section in the format the prompt asks for); again   *)
(*        gives the same for a later section that names the meal again;    *)
(*        figures is whether the text holds a figure the nutrition regexes *)
(*        find, such as "300 calories".  A JSON object without a meal key  *)
(*        and text in braces that is not JSON are texts of this kind.      *)

\* the nutrition a reply states for a meal
ReplyNutrition == Nutrition5(300, 40, 20, 10, 5)

\* the meal parsed from a section (lines 254-329); a meal without a parsed
\* section stays the {} of the initial structure
SectionMeal(section) ==
    CASE section = "full" ->
            MealDict(Some("name in reply"), Some("description in reply"), Some(ReplyNutrition))
      [] section = "sparse" ->
            MealDict(Some("name in reply"), Some("description in reply"), Some(ZeroNutrition))
      [] OTHER -> MealDict(None, None, None)

\* a value of the decoded JSON object, returned as it is (line 204)
JsonMeal(value) ==
    CASE value = "full" ->
            MealDict(Some("name in reply"), Some("description in reply"), Some(ReplyNutrition))
      [] value = "partial" -> MealDict(Some("name in reply"), None, None)
      [] value = "nondict" -> [t |-> "nondict"]
      [] OTHER -> [t |-> "absent"]

\* whether the loop over the sections parses the section (len(lines) >= 2)
ParsedSection(section) == section \in {"full", "sparse"}

\* meal_plan[meal_type] after the loop: each parsed section overwrites the
\* entry of its meal (lines 323-329)
StoredMeal(reply, m) ==
    IF ParsedSection(reply.again[m]) THEN SectionMeal(reply.again[m])
    ELSE SectionMeal(reply.meals[m])

\* the nutrition a parsed section adds to daily_totals; a section that is
\* not parsed adds nothing
SectionNutrition(section) ==
    IF section = "full" THEN ReplyNutrition ELSE ZeroNutrition

AddNutrition(a, b) ==
    Nutrition5(a.calories + b.calories, a.carbs + b.carbs, a.protein + b.protein,
               a.fat + b.fat, a.fiber + b.fiber)

\* daily_totals after the loop: every parsed section has added its
\* nutrition (lines 331-333)
SectionTotals(reply) ==
    LET OfMeal(m) == AddNutrition(SectionNutrition(reply.meals[m]),
                                  SectionNutrition(reply.again[m]))
    IN  AddNutrition(OfMeal("breakfast"), AddNutrition(OfMeal("lunch"), OfMeal("dinner")))

\* the plan of the two last resorts of the parser: the three meals are set
\* to placeholders of the same nutrition (their names and descriptions,
\* which differ by meal in the source, are kept as one)
PlaceholderPlan(name, nutrition, special_notes) ==
    LET meal == MealDict(Some(name), Some("placeholder description"), Some(nutrition))
    IN  Plan(meal, meal, meal, Some(PlanTotals(meal, meal, meal)), special_notes)

\* parse_meal_plan_response
parse_meal_plan_response(reply) ==
    CASE reply.kind = "none" ->
            \* response_text.strip() raises inside the try (lines 423-453)
            PlaceholderPlan("AI Generated Meal Plan", ZeroNutrition, "error")
      [] reply.kind = "json" ->
            \* the decoded object is returned as it is (lines 198-206)
            Plan(JsonMeal(reply.meals.breakfast), JsonMeal(reply.meals.lunch),
                 JsonMeal(reply.meals.dinner), None, "reply")
      [] OTHER ->
            IF \E m \in MealTypes : ParsedSection(reply.meals[m]) \/ ParsedSection(reply.again[m])
            THEN \* parsed_meals > 0: the meals of the other sections stay {}
                 Plan(StoredMeal(reply, "breakfast"), StoredMeal(reply, "lunch"),
                      StoredMeal(reply, "dinner"), Some(SectionTotals(reply)), "ai")
            ELSE IF reply.figures
            THEN \* the three "... Option" meals with the figures found (363-391)
                 PlaceholderPlan("Meal Option", ReplyNutrition, "ai")
            ELSE \* the raw text under "Personalized Meal Plan" (393-421)
                 PlaceholderPlan("Personalized Meal Plan", ZeroNutrition, "format")

\* the generator that parses whatever it got, the failed call included
generate_meal_plan_with_llm_NoFallback(user_context, reply) ==
    IF reply.kind = "raise"
    THEN PlaceholderPlan("AI Generated Meal Plan", ZeroNutrition, "error")
    ELSE parse_meal_plan_response(reply)

\* generate_meal_plan_with_llm
generate_meal_plan_with_llm(user_context, reply) ==
    IF reply.kind = "raise"
    THEN generate_fallback_meal_plan(user_context.dietary_preference,
                                     user_context.diabetic)
    ELSE parse_meal_plan_response(reply)

\* the row of SELECT ... WHERE user_id = ? ORDER BY created_at DESC LIMIT 1:
\* among the user's rows of the greatest created_at, the one inserted first
\* (SQLite's sorter keeps rows of equal key in rowid order)
LatestPlanRow(user_id) ==
    LET Mine(row) == row.user_id = user_id
        rows == SelectSeq(meal_plans, Mine)
        Latest(i) == /\ \A j \in 1..Len(rows) : rows[j].created_at <= rows[i].created_at
                     /\ \A j \in 1..(i - 1) : rows[j].created_at < rows[i].created_at
    IN  IF rows = <<>> THEN None
        ELSE Some(rows[CHOOSE i \in 1..Len(rows) : Latest(i)])

\* save_meal_plan that reports the failure of a close() after the commit:
\* the row is in the table and False is returned
save_meal_plan_FailsAfterCommit(user_id, meal_plan, insertOk) ==
    [rows |-> Append(meal_plans, [user_id |-> user_id, plan_data |-> meal_plan,
                                  created_at |-> now]),
     success |-> insertOk]

\* save_meal_plan: the table after the call and the boolean it returns; an
\* exception of the INSERT or the commit is caught and leaves no row
save_meal_plan(user_id, meal_plan, insertOk) ==
    IF insertOk
    THEN [rows |-> Append(meal_plans, [user_id |-> user_id, plan_data |-> meal_plan,
                                       created_at |-> now]),
          success |-> TRUE]
    ELSE [rows |-> meal_plans, success |-> FALSE]

\* MealPlannerAgent.process(action='generate'): the table afterwards, whether
\* the store answered, and the response.  save_meal_plan inserts the plan
\* as JSON text; json.dumps and the json.loads of get_latest give back the
\* dict they were given (every key is a string).
\* generate_meal_plan_message raises when a meal is not a dict (meal.get).
generate_plan(user_id, reply, readOk, insertOk) ==
    LET Result(rows, ok, resp) == [rows |-> rows, store_ok |-> ok, resp |-> resp]
        user_context == get_user_context(user_id, readOk)
        meal_plan == generate_meal_plan_with_llm(user_context[1], reply)
        MessageRaises(plan) == \E m \in MealTypes : plan[m].t = "nondict"
        saved == save_meal_plan(user_id, meal_plan, insertOk)
    IN  IF user_id = 0
        THEN Result(meal_plans, TRUE, Failure("missing_user_id"))
        ELSE IF user_context = None
        THEN Result(meal_plans, readOk, Failure("user_context_error"))
        ELSE IF ~saved.success
        THEN Result(saved.rows, FALSE, Failure("database_error"))
        ELSE Result(saved.rows, TRUE,
                    IF MessageRaises(meal_plan)
                    THEN \* the exception leaves process after the INSERT
                         Failure("exception")
                    ELSE [success |-> TRUE, meal_plan |-> meal_plan,
                          user_context |-> user_context[1]])

MealGenerate(user_id, reply, readOk, insertOk) ==
    LET result == generate_plan(user_id, reply, readOk, insertOk)
    IN  /\ meal_plans' = result.rows
        /\ last' = Call("meal", "generate", user_id, reply, result.store_ok, result.resp)
        /\ UNCHANGED <<users, conns, router, mood_logs, cgm_readings, food_logs,
                       nutrition_cache, now, probe>>

\* MealPlannerAgent.process(action='get_latest')
MealGetLatest(user_id, readOk) ==
    LET result == LatestPlanRow(user_id)
    IN  /\ last' = Call("meal", "get_latest", user_id, None, readOk \/ user_id = 0,
                        IF user_id = 0 THEN Failure("missing_user_id")
                        ELSE IF ~readOk THEN Failure("database_error")
                        ELSE IF result = None THEN Failure("no_plans_found")
                        ELSE [success |-> TRUE, meal_plan |-> result[1].plan_data,
                              created_at |-> result[1].created_at])
        /\ UNCHANGED <<users, conns, router, tables, nutrition_cache, now, probe>>

\* MealPlannerAgent.process with any other action
MealInvalidAction(user_id) ==
    /\ last' = Call("meal", "other", user_id, None, TRUE,
                    IF user_id = 0 THEN Failure("missing_user_id")
                    ELSE Failure("invalid_action"))
    /\ UNCHANGED <<users, conns, router, tables, nutrition_cache, now, probe>>

----------------------------------------------------------------------------
(* Greeting handler: greeting_agent.py *)

\* process(): validate_user_id and get_user_info each read the users table
\* and turn an exception into "not found"; validateOk and infoOk are
\* whether the two reads succeed
Greet(user_id, validateOk, infoOk) ==
    LET Reply(ok, resp) == last' = Call("greeting", "greet", user_id, None, ok, resp)
        Refused(message) ==
            [success |-> FALSE, message |-> message, action |-> "request_user_id"]
    IN  /\ IF user_id = 0
           THEN Reply(TRUE, Refused("Please provide a valid user ID to continue."))
           ELSE IF ~validateOk \/ user_id \notin DOMAIN users
           THEN Reply(validateOk, Refused("User ID not found."))
           ELSE IF ~infoOk
           THEN Reply(FALSE, Refused("Unable to retrieve user information."))
           ELSE Reply(TRUE, [success |-> TRUE, message |-> "greeting",
                             user_info |-> users[user_id], action |-> "show_dashboard"])
        /\ UNCHANGED <<users, conns, router, tables, nutrition_cache, now, probe>>

----------------------------------------------------------------------------
(* Intent router: interrupt_agent.py *)

\* str.startswith
StartsWith(s, prefix) ==
    Len(s) >= Len(prefix) /\ SubSeq(s, 1, Len(prefix)) = prefix

\* the characters str.isdigit accepts and the characters \w of the re
\* module accepts, among those of the queries
DigitChars == {"0", "1", "2", "3", "4", "5", "6", "7", "8", "9"}

WordChars ==
    DigitChars \cup {"_"} \cup {UpperChars[i] : i \in 1..26} \cup {LowerChars[i] : i \in 1..26}

\* str.isdigit on one character
IsDigit(c) == c \in DigitChars

\* any(keyword in query for keyword in keywords)
AnyIn(keywords, query) == \E keyword \in keywords : Contains(query, keyword)

\* the question test that looks for the question mark only
is_question_MarkOnly(query) == Contains(query, <<"?">>)

\* is_question of classify_question: the lowered query starts with a
\* question word or holds a question mark
is_question(query) ==
    LET question_words ==
            { <<"w","h","y">>, <<"h","o","w">>, <<"w","h","a","t">>,
              <<"w","h","e","n">>, <<"w","h","e","r","e">>,
              <<"w","h","i","c","h">>, <<"w","h","o">>, <<"w","h","o","m">>,
              <<"w","h","o","s","e">> }
    IN  \/ \E word \in question_words : StartsWith(query, word)
        \/ Contains(query, <<"?">>)

health_score_keywords ==
    { <<"h","e","a","l","t","h"," ","s","c","o","r","e">>,
      <<"h","o","w"," ","h","e","a","l","t","h","y">>,
      <<"h","e","a","l","t","h"," ","r","a","t","i","n","g">>,
      <<"w","e","l","l","n","e","s","s"," ","s","c","o","r","e">> }

\* the keyword lists of classify_question
keywords ==
    [ glucose |->
        { <<"g","l","u","c","o","s","e">>,
          <<"b","l","o","o","d"," ","s","u","g","a","r">>,
          <<"s","u","g","a","r"," ","l","e","v","e","l">>, <<"c","g","m">> },
      mood |->
        { <<"h","a","p","p","y">>, <<"s","a","d">>,
          <<"a","n","g","r","y">>, <<"c","a","l","m">>,
          <<"t","i","r","e","d">>, <<"a","n","x","i","o","u","s">>,
          <<"f","e","e","l","i","n","g">> },
      meal |->
        { <<"m","e","a","l">>, <<"p","l","a","n">>,
          <<"b","r","e","a","k","f","a","s","t">>, <<"l","u","n","c","h">>,
          <<"d","i","n","n","e","r">>, <<"g","e","n","e","r","a","t","e">> },
      nutrition |->
        { <<"n","u","t","r","i","t","i","o","n">>,
          <<"n","u","t","r","i","e","n","t","s">>,
          <<"c","a","l","o","r","i","e","s">>,
          <<"p","r","o","t","e","i","n">>, <<"c","a","r","b","s">>,
          <<"f","a","t">>, <<"a","n","a","l","y","z","e">> },
      question_phrases |->
        { <<"w","h","a","t"," ","a","r","e">>,
          <<"h","o","w"," ","m","u","c","h">>,
          <<"t","e","l","l"," ","m","e">> },
      nutrition_food_phrases |->
        { <<"n","u","t","r","i","t","i","o","n"," ","v","a","l","u","e","s"," ","i","n">>,
          <<"n","u","t","r","i","e","n","t","s"," ","i","n">>,
          <<"c","a","l","o","r","i","e","s"," ","i","n">>,
          <<"p","r","o","t","e","i","n"," ","i","n">>,
          <<"c","a","r","b","s"," ","i","n">>, <<"f","a","t"," ","i","n">>,
          <<"n","u","t","r","i","t","i","o","n"," ","o","f">>,
          <<"n","u","t","r","i","e","n","t","s"," ","o","f">>,
          <<"c","a","l","o","r","i","e","s"," ","o","f">>,
          <<"p","r","o","t","e","i","n"," ","o","f">>,
          <<"c","a","r","b","s"," ","o","f">>, <<"f","a","t"," ","o","f">> } ]

\* classify_question: the rules in the order the function tests them
classify_question(text) ==
    LET query == Lower(text)
        has_number == \E i \in 1..Len(query) : IsDigit(query[i])
        has_nutrition_keyword == AnyIn(keywords.nutrition, query)
    IN  IF AnyIn(keywords.glucose, query) /\ has_number /\ ~is_question(query)
        THEN "glucose_logging"
        ELSE IF AnyIn(keywords.mood, query) /\ ~is_question(query)
        THEN "mood_logging"
        ELSE IF AnyIn(keywords.meal, query) /\ ~is_question(query)
        THEN "meal_planning"
        ELSE IF \/ has_nutrition_keyword /\ AnyIn(keywords.question_phrases, query)
                \/ AnyIn(keywords.nutrition_food_phrases, query)
                \/ StartsWith(query, <<"w","h","a","t"," ","a","r","e">>)
                      /\ has_nutrition_keyword
        THEN "nutrition_analysis"
        ELSE IF AnyIn(health_score_keywords, query)
        THEN "health_score"
        ELSE IF \/ Contains(query, <<"h","o","w">>)
                \/ Contains(query, <<"w","h","a","t">>)
                \/ Contains(query, <<"w","h","y">>)
        THEN "informational"
        ELSE IF Contains(query, <<"h","e","l","p">>)
        THEN "app_help"
        ELSE "general"

\* \w of the re module, on one character
IsWordChar(c) == c \in WordChars

\* the search that takes the first two or three digits wherever they stand
glucose_match_AnyDigits(query) ==
    LET n == Len(query)
        DigitValue(c) == CHOOSE d \in 0..9 : ToString(d) = c
        Digits(i, k) == i + k - 1 <= n /\ \A j \in i..(i + k - 1) : IsDigit(query[j])
        Matches(i) == Digits(i, 2)
        first == CHOOSE i \in 1..n : Matches(i) /\ \A j \in 1..(i - 1) : ~Matches(j)
    IN  IF ~\E i \in 1..n : Matches(i) THEN None
        ELSE IF Digits(first, 3)
        THEN Some(100 * DigitValue(query[first]) + 10 * DigitValue(query[first + 1])
                      + DigitValue(query[first + 2]))
        ELSE Some(10 * DigitValue(query[first]) + DigitValue(query[first + 1]))

\* re.search(r'\b\d{2,3}\b', query) and int(glucose_match.group()): the
\* leftmost run of two or three digits that has no word character right
\* before it and none right after it, or None
glucose_match(query) ==
    LET n == Len(query)
        DigitValue(c) == CHOOSE d \in 0..9 : ToString(d) = c
        Digits(i, k) == i + k - 1 <= n /\ \A j \in i..(i + k - 1) : IsDigit(query[j])
        Boundary(i) ==  \* \b between the characters i - 1 and i
            LET before == i > 1 /\ IsWordChar(query[i - 1])
                after == i <= n /\ IsWordChar(query[i])
            IN  before # after
        Run(i, k) == Boundary(i) /\ Digits(i, k) /\ Boundary(i + k)
        Matches(i) == Run(i, 3) \/ Run(i, 2)
        first == CHOOSE i \in 1..n : Matches(i) /\ \A j \in 1..(i - 1) : ~Matches(j)
    IN  IF ~\E i \in 1..n : Matches(i) THEN None
        ELSE IF Run(first, 3)
        THEN Some(100 * DigitValue(query[first]) + 10 * DigitValue(query[first + 1])
                      + DigitValue(query[first + 2]))
        ELSE Some(10 * DigitValue(query[first]) + DigitValue(query[first + 1]))

(* A reply of the generative-text service to the question prompt is        *)
(* [kind |-> "raise"] or [kind |-> "text", text], text being response.text *)

\* the dict answer_query_cached returns when the call raises
ErrorAnswer ==
    [answer |-> <<"I","'","m"," ","s","o","r","r","y",","," ","I"," ","c","a",
                   "n","'","t"," ","p","r","o","c","e","s","s"," ","y","o",
                   "u","r"," ","r","e","q","u","e","s","t"," ","r","i","g",
                   "h","t"," ","n","o","w",".">>,
     source |-> "error"]

\* the cache of answer_query_cached after a hit or a miss (lru_cache)
AnswerCachePut(key, content) ==
    LET NotKey(e) == e.key # key
        rest == SelectSeq(answer_cache, NotKey)
        kept == IF Len(rest) >= cache_maxsize THEN Tail(rest) ELSE rest
    IN  Append(kept, [key |-> key, content |-> content])

\* answer_query_cached that calls the service again when the cached dict
\* is the one of a failed call
answer_query_cached_RetryErrors(query, reply) ==
    LET Hit(i) == answer_cache[i].key = query /\ answer_cache[i].content.source # "error"
    IN  IF \E i \in 1..Len(answer_cache) : Hit(i)
        THEN [content |-> answer_cache[CHOOSE i \in 1..Len(answer_cache) : Hit(i)].content,
              llm_called |-> FALSE]
        ELSE [content |-> IF reply.kind = "raise" THEN ErrorAnswer
                          ELSE [answer |-> Strip(reply.text), source |-> "llm"],
              llm_called |-> TRUE]

\* answer_query_cached: the dict for the query and whether the service was
\* called, reply being what the service answers if it is; the dict of a
\* failed call is returned like any other, so lru_cache keeps it
answer_query_cached(query, reply) ==
    LET Hit(i) == answer_cache[i].key = query
    IN  IF \E i \in 1..Len(answer_cache) : Hit(i)
        THEN [content |-> answer_cache[CHOOSE i \in 1..Len(answer_cache) : Hit(i)].content,
              llm_called |-> FALSE]
        ELSE [content |-> IF reply.kind = "raise" THEN ErrorAnswer
                          ELSE [answer |-> Strip(reply.text), source |-> "llm"],
              llm_called |-> TRUE]

\* the overall score with the three weights equal
weighted_score_EqualWeights(mood, glucose, nutrition) ==
    RoundHalfEven(100 * (mood[1] * glucose[2] * nutrition[2]
                           + glucose[1] * mood[2] * nutrition[2]
                           + nutrition[1] * mood[2] * glucose[2]),
                  3 * mood[2] * glucose[2] * nutrition[2])

\* round(mood_score * 0.3 + glucose_score * 0.4 + nutrition_score * 0.3, 1)
\* in tenths; each score is given as the fraction <<num, den>> of 10
weighted_score(mood, glucose, nutrition) ==
    RoundHalfEven(30 * mood[1] * glucose[2] * nutrition[2]
                    + 40 * glucose[1] * mood[2] * nutrition[2]
                    + 30 * nutrition[1] * mood[2] * glucose[2],
                  mood[2] * glucose[2] * nutrition[2])

\* calculate_health_score over the Postgres tables; the scores are in
\* tenths.  pgOk is "ok", "query" (a statement raises inside the try) or
\* "connect" (get_connection raises, outside the try: None is returned for
\* the exception that leaves the function).
calculate_health_score(user_id, pgOk) ==
    LET Recent(row) == row.user_id = user_id /\ row.timestamp >= now - 7
        mood_data == SelectSeq(pg.mood_logs, Recent)
        glucose_data == SelectSeq(pg.cgm_readings, Recent)
        food_data == SelectSeq(pg.food_logs, Recent)
        Positive(row) == row.mood \in {"happy", "calm"}
        Healthy(row) == 80 <= row.glucose_reading /\ row.glucose_reading <= 180
        WordsOf(s) ==
            { SubSeq(s, i, j) : <<i, j>> \in
                { p \in (1..Len(s)) \X (1..Len(s)) :
                    /\ p[1] <= p[2]
                    /\ \A k \in p[1]..p[2] : ~IsSpace(s[k])
                    /\ (p[1] = 1 \/ IsSpace(s[p[1] - 1]))
                    /\ (p[2] = Len(s) \/ IsSpace(s[p[2] + 1])) } }
        words == UNION { WordsOf(Lower(food_data[i].meal_description)) :
                            i \in 1..Len(food_data) }
        \* each score as a fraction num / den of 10
        mood == IF mood_data = <<>> THEN <<1, 2>>
                ELSE <<Len(SelectSeq(mood_data, Positive)), Len(mood_data)>>
        glucose == IF glucose_data = <<>> THEN <<1, 2>>
                   ELSE <<Len(SelectSeq(glucose_data, Healthy)), Len(glucose_data)>>
        nutrition == IF food_data = <<>> THEN <<1, 2>>
                     ELSE <<Min(20, Cardinality(words)), 20>>
        Score(f) == RoundHalfEven(100 * f[1], f[2])
        Below5(f) == 2 * f[1] < f[2]
    IN  IF pgOk = "connect" THEN None
        ELSE IF pgOk = "query"
        THEN Some([overall_score |-> 50, mood_score |-> 50, glucose_score |-> 50,
                   nutrition_score |-> 50, recommendations |-> {"unable"},
                   success |-> FALSE])
        ELSE Some([overall_score |-> weighted_score(mood, glucose, nutrition),
                   mood_score |-> Score(mood),
                   glucose_score |-> Score(glucose),
                   nutrition_score |-> Score(nutrition),
                   recommendations |->
                       {r \in {"mood", "glucose", "nutrition"} :
                           \/ r = "mood" /\ Below5(mood)
                           \/ r = "glucose" /\ Below5(glucose)
                           \/ r = "nutrition" /\ Below5(nutrition)},
                   success |-> TRUE])

(* The tools of the sibling handlers that the router calls through         *)
(* run_tool: check_glucose, mood_tracker and meal_planner.  Each gives the *)
(* table afterwards and the handler's response.                            *)

\* check_glucose with action 'log': the CGM handler's 'log'
check_glucose(user_id, glucose_reading, insertOk) ==
    LET Result(rows, resp) == [rows |-> rows, resp |-> resp]
    IN  IF user_id = 0
        THEN Result(cgm_readings, Failure("missing_user_id"))
        ELSE IF ~ReadingInRange(glucose_reading)
        THEN Result(cgm_readings, Failure("invalid_range"))
        ELSE IF ~insertOk
        THEN Result(cgm_readings, Failure("database_error"))
        ELSE Result(log_cgm_reading(user_id, glucose_reading),
                    CgmReadingResponse(glucose_reading))

\* the category a free text falls back to
neutral == <<"n", "e", "u", "t", "r", "a", "l">>

\* the classification of a free text into a mood: the first mood of the
\* enumeration whose label the lowered text holds; else the mood the
\* generative-text service names, when it names one of the enumeration;
\* else neutral
classify_mood_text(user_input, reply) ==
    LET text == Lower(user_input)
        n == Len(mood_values)
        Hit(i) == Contains(text, mood_values[i].mood)
    IN  IF \E i \in 1..n : Hit(i)
        THEN mood_values[CHOOSE i \in 1..n : Hit(i) /\ \A j \in 1..(i - 1) : ~Hit(j)].mood
        ELSE IF reply.kind = "label" /\ IsMoodKey(reply.mood) THEN reply.mood
        ELSE neutral

\* mood_tracker with action 'log' and a free text
mood_tracker(user_id, user_input, reply, insertOk) ==
    LET Result(rows, resp) == [rows |-> rows, resp |-> resp]
        mood == classify_mood_text(user_input, reply)
    IN  IF user_id = 0
        THEN Result(mood_logs, Failure("missing_user_id"))
        ELSE IF ~insertOk
        THEN Result(mood_logs, Failure("database_error"))
        ELSE Result(log_mood(user_id, mood),
                    [success |-> TRUE, logged_mood |-> mood])

\* meal_planner with action 'generate': the meal-plan handler's 'generate'
meal_planner(user_id, reply, readOk, insertOk) ==
    generate_plan(user_id, reply, readOk, insertOk)

\* the envelope every branch of interrupt_agent returns; llm_called and
\* store_used record whether the call reached the generative-text service
\* and a database
Envelope(success, message, question_type, response_source, navigation, llm_called, store_used) ==
    [success |-> success, message |-> message, question_type |-> question_type,
     response_source |-> response_source, navigation_suggestion |-> navigation,
     continue_flow |-> TRUE, llm_called |-> llm_called, store_used |-> store_used]

\* the closing sentence of every answer that is not a tool's
Navigation == "You can continue with your previous task or ask another question."

\* the health_score branch that goes on without testing user_id: the
\* query for user_id None matches no row
health_score_branch_NoIdTest(user_id, question_type, pgOk) ==
    LET health_data == calculate_health_score(IF user_id = None THEN 0 ELSE user_id[1],
                                              pgOk)
    IN  IF health_data = None THEN Failure("exception")
        ELSE IF health_data[1].success
        THEN Envelope(TRUE, health_data[1], question_type, "health_score_calculation",
                      Some(Navigation), FALSE, TRUE)
        ELSE Envelope(TRUE, "Unable to calculate health score at the moment.",
                      question_type, "system", Some(Navigation), FALSE, TRUE)

\* the health_score branch of interrupt_agent: without a user_id it asks
\* for one; else it answers with the score, and the exception of
\* get_connection leaves interrupt_agent
health_score_branch(user_id, question_type, pgOk) ==
    IF user_id = None
    THEN Envelope(TRUE, "I need your user ID to calculate your health score.",
                  question_type, "system", Some(Navigation), FALSE, FALSE)
    ELSE LET health_data == calculate_health_score(user_id[1], pgOk)
         IN  IF health_data = None THEN Failure("exception")
             ELSE IF health_data[1].success
             THEN Envelope(TRUE, health_data[1], question_type,
                           "health_score_calculation", Some(Navigation), FALSE, TRUE)
             ELSE Envelope(TRUE, "Unable to calculate health score at the moment.",
                           question_type, "system", Some(Navigation), FALSE, TRUE)

\* interrupt_agent(user_id, query): user_id is None or <<id>>; replies are
\* what the service answers to the prompt of each branch if it is asked;
\* storeOk is whether the handlers' store answers and pgOk how Postgres
\* does.  The result holds the three tables and the cache afterwards and
\* the response.
interrupt_agent(user_id, query, replies, storeOk, pgOk) ==
    LET uid == IF user_id = None THEN 0 ELSE user_id[1]
        question_type == classify_question(query)
        Result(moods, readings, plans, answers, resp) ==
            [mood_logs |-> moods, cgm_readings |-> readings, meal_plans |-> plans,
             answer_cache |-> answers, resp |-> resp]
        Same(resp) == Result(mood_logs, cgm_readings, meal_plans, answer_cache, resp)
    IN  IF query = <<>>
        THEN Same(Envelope(FALSE, "Query is required", "none", "none", None,
                           FALSE, FALSE))
        ELSE IF question_type = "glucose_logging"
        THEN LET glucose_value == glucose_match(query)
                 result == check_glucose(uid, glucose_value[1], storeOk)
             IN  IF glucose_value # None
                 THEN Result(mood_logs, result.rows, meal_plans, answer_cache,
                             Envelope(result.resp.success, result.resp, question_type,
                                      "cgm_agent", None, FALSE, uid # 0))
                 ELSE Same(Envelope(FALSE, "no valid glucose value", question_type,
                                    "cgm_agent", None, FALSE, FALSE))
        ELSE IF question_type = "mood_logging"
        THEN LET result == mood_tracker(uid, query, replies.mood, storeOk)
             IN  Result(result.rows, cgm_readings, meal_plans, answer_cache,
                        Envelope(result.resp.success, result.resp, question_type,
                                 "mood_tracker", None,
                                 /\ uid # 0
                                 /\ classify_mood_text(query, [kind |-> "raise"]) = neutral,
                                 uid # 0))
        ELSE IF question_type = "meal_planning"
        THEN LET result == meal_planner(uid, replies.meal, storeOk, storeOk)
             IN  Result(mood_logs, cgm_readings, result.rows, answer_cache,
                        IF ~result.resp.success /\ result.resp.error = "exception"
                        THEN \* caught by the except of the branch
                             Envelope(FALSE, "Error generating meal plan",
                                      question_type, "error", None, TRUE, TRUE)
                        ELSE Envelope(result.resp.success, result.resp, question_type,
                                      "meal_planner", None,
                                      get_user_context(uid, storeOk) # None, uid # 0))
        ELSE IF question_type = "nutrition_analysis"
        THEN \* run_tool(food_intake_agent, ...) is given the handler function,
             \* which has no tools: AttributeError, caught by the except
             Same(Envelope(FALSE, "Error analyzing nutrition", question_type,
                           "error", None, FALSE, FALSE))
        ELSE IF question_type = "health_score"
        THEN Same(health_score_branch(user_id, question_type, pgOk))
        ELSE LET asked == answer_query_cached(query, replies.answer)
                 answer_data == asked.content
             IN  Result(mood_logs, cgm_readings, meal_plans,
                        AnswerCachePut(query, answer_data),
                        Envelope(TRUE, answer_data.answer, question_type,
                                 answer_data.source, Some(Navigation),
                                 asked.llm_called, FALSE))

----------------------------------------------------------------------------
(* The clock *)

Tick ==
    /\ \E t \in Times : t > now /\ now' = t
    /\ UNCHANGED <<users, conns, router, tables, nutrition_cache, last, probe>>

----------------------------------------------------------------------------
(* Initial states *)

\* the Postgres database after create_tables.py: the tables exist, no rows
EmptyPg == [mood_logs |-> <<>>, cgm_readings |-> <<>>, food_logs |-> <<>>]

\* the users the seeding script writes: user 1 with the default baseline,
\* user 2 with Type 2 Diabetes
SeedUsers ==
    [u \in UserIds |->
        IF u = 1 THEN [min |-> 80, max |-> 120, diabetic |-> FALSE]
        ELSE [min |-> 100, max |-> 180, diabetic |-> TRUE]]

\* the same table with a wider baseline range for the diabetic user
WideUsers == [SeedUsers EXCEPT ![2] = WideProfile]

NoProbe == [fn |-> "none", arg |-> None, out |-> None]

InitStore(userTable, firstProbe) ==
    /\ users = userTable
    /\ mood_logs = <<>>
    /\ cgm_readings = <<>>
    /\ food_logs = <<>>
    /\ meal_plans = <<>>
    /\ nutrition_cache = <<>>
    /\ answer_cache = <<>>
    /\ pg = EmptyPg
    /\ now = 0
    /\ last = NoCall
    /\ probe = firstProbe
    /\ conns = <<>>

----------------------------------------------------------------------------
(* Pure functions under check: the argument is drawn, then the function is *)
(* applied                                                                 *)

\* readings 0..MaxReading are classified
MaxReading == 400

InitStatus ==
    \E r \in 0..MaxReading :
        InitStore(SeedUsers, [fn |-> "get_glucose_status", arg |-> Some(r), out |-> None])

ApplyStatus ==
    /\ probe.fn = "get_glucose_status"
    /\ probe.out = None
    /\ probe' = [probe EXCEPT !.out = Some(get_glucose_status(probe.arg[1]))]
    /\ UNCHANGED <<users, conns, router, tables, nutrition_cache, now, last>>

NextStatus == ApplyStatus

SpecStatus == InitStatus /\ [][NextStatus]_vars

----------------------------------------------------------------------------
(* The CGM handler alone *)

\* rows of cgm_readings in SpecCgm
MaxCgmRows == 1

ReadingInputs ==
    {None} \cup {Some(r) : r \in {59, 60, 65, 69, 70, 190, 300, 301, 350, 351}}

\* draws of randint(-20, 30) and of randint(20, 60)
VariationDraws == {-20, 30}

SpikeDraws == {20, 60}

InitCgm == \E t \in {SeedUsers, WideUsers} : InitStore(t, NoProbe)

DoCgmLog ==
    \E u \in {0} \cup UserIds, r \in ReadingInputs, ok \in BOOLEAN :
        /\ Len(cgm_readings) < MaxCgmRows
        /\ CgmLog(u, r, ok)

DoCgmGenerate ==
    \E u \in {0} \cup UserIds, readOk \in BOOLEAN, insertOk \in BOOLEAN :
        LET profile == get_user_baseline(u, readOk)
        IN  \E base \in {profile.min, profile.max}, variation \in VariationDraws,
               excursion \in BOOLEAN :
            \E spike \in IF excursion THEN SpikeDraws ELSE {20} :
                /\ Len(cgm_readings) < MaxCgmRows
                /\ CgmGenerate(u, base, variation, excursion, spike, readOk, insertOk)

DoCgmGetStats ==
    \E u \in {0} \cup UserIds, ok \in BOOLEAN : CgmGetStats(u, ok)

DoCgmInvalidAction ==
    \E u \in {0} \cup UserIds : CgmInvalidAction(u)

NextCgm == DoCgmLog \/ DoCgmGenerate \/ DoCgmGetStats \/ DoCgmInvalidAction

SpecCgm == InitCgm /\ [][NextCgm]_vars

----------------------------------------------------------------------------
(* Nutrition analysis alone: the description and the reply of the service  *)
(* are drawn, then analyze_nutrition is applied                            *)

\* meal descriptions: table keys in several spellings, parts of keys, texts
\* holding one or two keys, and texts the table does not match
MealDescriptions ==
    { <<>>,
      <<"a", "p", "p", "l", "e">>,
      <<"A", "p", "p", "l", "e">>,
      <<" ", "a", "p", "p", "l", "e", " ">>,
      <<"a">>,
      <<" ">>,
      <<"g", "r", "a", "p", "e", "f", "r", "u", "i", "t">>,
      <<"n", "u", "t">>,
      <<"s", "t", "e", "a", "k">>,
      <<"f", "r", "u", "i", "t", " ", "s", "a", "l", "a", "d">>,
      <<"a", "p", "p", "l", "e", " ", "b", "a", "n", "a", "n", "a">>,
      <<"r", "i", "c", "e", " ", "b", "o", "w", "l">>,
      <<"p", "i", "z", "z", "a">>,
      <<"b", "r", "e", "a", "k", "f", "a", "s", "t">>,
      <<"x", "y", "z">> }

JsonValues ==
    { [t |-> "missing"], [t |-> "null"], JsonNum(2500), [t |-> "str_num", v |-> 120],
      [t |-> "str_nan"], [t |-> "str"], [t |-> "bool", v |-> 1], [t |-> "list"],
      [t |-> "nan"] }

\* objects with the same value under each key, or with a number under
\* calories and the value under the other keys
ObjectFields ==
    { Nutrition(v, v, v, v) : v \in JsonValues } \cup
    { Nutrition(JsonNum(2500), v, v, v) : v \in JsonValues }

Replies ==
    { [kind |-> "raise"], [kind |-> "text"], [kind |-> "nonobject"] } \cup
    { [kind |-> "object", wrapper |-> w, nested |-> n, fields |-> f] :
        w \in {"bare", "fenced", "prose"}, n \in BOOLEAN, f \in ObjectFields }

InitNutrition ==
    \E d \in MealDescriptions, r \in Replies :
        InitStore(SeedUsers, [fn |-> "analyze_nutrition",
                              arg |-> Some([meal_description |-> d, reply |-> r]),
                              out |-> None])

ApplyNutrition ==
    /\ probe.fn = "analyze_nutrition"
    /\ probe.out = None
    /\ LET d == probe.arg[1].meal_description
           r == probe.arg[1].reply
           analysis == analyze_nutrition(d, r)
       IN  /\ probe' = [probe EXCEPT !.out = Some(analysis)]
           /\ nutrition_cache' =
                 IF analysis.cached
                 THEN CachePut(d, analyze_nutrition_cached(d, r))
                 ELSE nutrition_cache
    /\ UNCHANGED <<users, conns, router, tables, now, last>>

NextNutrition == ApplyNutrition

SpecNutrition == InitNutrition /\ [][NextNutrition]_vars

----------------------------------------------------------------------------
(* The mood handler alone *)

\* rows of mood_logs in SpecMood
MaxMoodRows == 2

\* the mood of a request: absent, keys of mood_values in several spellings,
\* and other texts
MoodInputs ==
    { <<>>,
      <<"h", "a", "p", "p", "y">>,
      <<"H", "a", "p", "p", "y">>,
      <<"S", "A", "D">>,
      <<"t", "i", "r", "e", "d">>,
      <<"c", "a", "l", "m">>,
      <<"s", "t", "r", "e", "s", "s", "e", "d">>,
      <<"e", "n", "e", "r", "g", "e", "t", "i", "c">>,
      <<" ", "h", "a", "p", "p", "y">> }

InitMood == InitStore(SeedUsers, NoProbe)

DoMoodLog ==
    \E u \in UserIdInputs, m \in MoodInputs, insertOk \in BOOLEAN, readOk \in BOOLEAN :
        /\ Len(mood_logs) < MaxMoodRows
        /\ MoodLog(u, m, insertOk, readOk)

DoMoodGetStats ==
    \E u \in UserIdInputs, ok \in BOOLEAN : MoodGetStats(u, ok)

DoMoodInvalidAction ==
    \E u \in UserIdInputs : MoodInvalidAction(u)

NextMood == DoMoodLog \/ DoMoodGetStats \/ DoMoodInvalidAction

SpecMood == InitMood /\ [][NextMood]_vars

----------------------------------------------------------------------------
(* The food handler alone *)

\* rows of food_logs in SpecFood
MaxFoodRows == 1

FoodDescriptions ==
    { <<>>, <<"a", "p", "p", "l", "e">>, <<"p", "i", "z", "z", "a">> }

\* one reply of each shape: the call raising, text, JSON that is no object,
\* objects with each kind of value, and an object the parser cannot read
FoodReplies ==
    { [kind |-> "raise"], [kind |-> "text"], [kind |-> "nonobject"] } \cup
    { [kind |-> "object", wrapper |-> "bare", nested |-> FALSE,
       fields |-> Nutrition(v, v, v, v)] : v \in JsonValues } \cup
    { [kind |-> "object", wrapper |-> "prose", nested |-> TRUE,
       fields |-> Nutrition(JsonNum(2500), JsonNum(2500), JsonNum(2500), JsonNum(2500))] }

InitFood == InitStore(SeedUsers, NoProbe)

DoFoodLog ==
    \E u \in {0, 1}, d \in FoodDescriptions, r \in FoodReplies, ok \in BOOLEAN :
        /\ Len(food_logs) < MaxFoodRows
        /\ FoodLog(u, d, r, ok)

DoFoodGetStats ==
    \E u \in {0, 1}, ok \in BOOLEAN : FoodGetStats(u, ok)

DoFoodInvalidAction ==
    \E u \in {0, 1} : FoodInvalidAction(u)

NextFood == DoFoodLog \/ DoFoodGetStats \/ DoFoodInvalidAction

SpecFood == InitFood /\ [][NextFood]_vars

----------------------------------------------------------------------------
(* The meal-plan handler alone *)

\* rows meal_plans may hold when every reply is tried
MaxMealRows == 1

\* rows meal_plans may hold when plans follow one another
MaxPlanRows == 2

\* users rows as the seeding script writes them: a dietary preference, and
\* the baseline range that goes with the conditions
PlannerUsers ==
    LET PlannerProfile(dietary_preference, diabetic) ==
            [min |-> IF diabetic THEN 100 ELSE 80,
             max |-> IF diabetic THEN 180 ELSE 120,
             diabetic |-> diabetic, dietary_preference |-> dietary_preference]
    IN  { [u \in UserIds |-> IF u = 1 THEN PlannerProfile("vegetarian", FALSE)
                             ELSE PlannerProfile("non-vegetarian", TRUE)],
          [u \in UserIds |-> IF u = 1 THEN PlannerProfile("non-vegetarian", FALSE)
                             ELSE PlannerProfile("vegan", TRUE)] }

JsonReply(breakfast, lunch, dinner) ==
    [kind |-> "json",
     meals |-> [breakfast |-> breakfast, lunch |-> lunch, dinner |-> dinner]]

TextReply(breakfast, lunch, dinner, figures) ==
    [kind |-> "text",
     meals |-> [breakfast |-> breakfast, lunch |-> lunch, dinner |-> dinner],
     again |-> [breakfast |-> "absent", lunch |-> "absent", dinner |-> "absent"],
     figures |-> figures]

\* a text with a second section that names breakfast
RepeatedReply(breakfast, lunch, dinner, again) ==
    [kind |-> "text",
     meals |-> [breakfast |-> breakfast, lunch |-> lunch, dinner |-> dinner],
     again |-> [breakfast |-> again, lunch |-> "absent", dinner |-> "absent"],
     figures |-> TRUE]

\* replies of every kind: all three meals, one or two of them, none
MealReplies ==
    { [kind |-> "raise"], [kind |-> "none"],
      JsonReply("full", "full", "full"),
      JsonReply("full", "absent", "absent"),
      JsonReply("partial", "full", "full"),
      JsonReply("full", "nondict", "full"),
      TextReply("full", "full", "full", TRUE),
      TextReply("full", "absent", "absent", TRUE),
      TextReply("sparse", "full", "bare", TRUE),
      RepeatedReply("full", "full", "full", "full"),
      RepeatedReply("sparse", "absent", "full", "full"),
      TextReply("bare", "bare", "bare", FALSE),
      TextReply("absent", "absent", "absent", TRUE),
      TextReply("absent", "absent", "absent", FALSE) }

InitMeal ==
    /\ users \in PlannerUsers
    /\ mood_logs = <<>>
    /\ cgm_readings = <<>>
    /\ food_logs = <<>>
    /\ meal_plans = <<>>
    /\ nutrition_cache = <<>>
    /\ answer_cache = <<>>
    /\ pg = EmptyPg
    /\ now = 0
    /\ last = NoCall
    /\ probe = NoProbe
    /\ conns = <<>>

\* 'generate' with the store answering, or failing at the read or at the
\* insert; get_latest; any other action
NextMeal ==
    \/ /\ Len(meal_plans) < MaxMealRows
       /\ \E user_id \in UserIdInputs, reply \in MealReplies :
             MealGenerate(user_id, reply, TRUE, TRUE)
    \/ /\ Len(meal_plans) < MaxMealRows
       /\ \E user_id \in UserIds, readOk \in BOOLEAN :
             MealGenerate(user_id, [kind |-> "raise"], readOk, FALSE)
    \/ \E user_id \in UserIdInputs, readOk \in BOOLEAN : MealGetLatest(user_id, readOk)
    \/ \E user_id \in UserIdInputs : MealInvalidAction(user_id)
    \/ Tick

SpecMeal == InitMeal /\ [][NextMeal]_vars

\* a few replies, for 'generate' calls that follow one another
LaterReplies ==
    { [kind |-> "raise"],
      JsonReply("full", "absent", "absent"),
      TextReply("full", "full", "full", TRUE) }

NextPlans ==
    \/ /\ Len(meal_plans) < MaxPlanRows
       /\ \E user_id \in UserIds, reply \in LaterReplies :
             MealGenerate(user_id, reply, TRUE, TRUE)
    \/ \E user_id \in UserIds \cup {NoUser}, readOk \in BOOLEAN :
          MealGetLatest(user_id, readOk)
    \/ Tick

SpecPlans == InitMeal /\ [][NextPlans]_vars

----------------------------------------------------------------------------
(* The router over the handlers' store, the Postgres tables and the cache *)

\* rows of the log tables plus entries of the answer cache
MaxRouterEntries == 1

\* the Postgres tables as generate_dataset_pg.py fills them at time 0: for
\* each user one mood and one reading a day over seven days (a sample of
\* its random draws, for user 1)
SeededPg ==
    LET moods == <<"happy", "sad", "tired", "anxious", "calm", "angry", "sad">>
        readings == <<70, 120, 200, 150, 95, 185, 110>>
    IN  [mood_logs |-> [day \in 1..7 |->
                           [user_id |-> 1, mood |-> moods[day], timestamp |-> 1 - day]],
         cgm_readings |-> [day \in 1..7 |->
                              [user_id |-> 1, glucose_reading |-> readings[day],
                               timestamp |-> 1 - day]],
         food_logs |-> <<>>]

\* queries: empty, open questions, health-score requests alone and with the
\* keywords of other rules, questions that name glucose, mood or meals,
\* glucose messages with numbers of one to four digits, mood messages, a
\* message that also holds a glucose value, a meal-planning and a nutrition
\* request
Queries ==
    { <<>>,
      <<"h","i">>,
      <<"h","e","l","p"," ","m","e">>,
      <<"h","o","w"," ","a","r","e"," ","y","o","u">>,
      <<"w","h","a","t"," ","i","s"," ","m","y"," ","h","e","a","l","t","h"," ","s","c","o","r","e">>,
      <<"h","e","a","l","t","h"," ","r","a","t","i","n","g"," ","p","l","e","a","s","e">>,
      <<"m","y"," ","h","e","a","l","t","h"," ","s","c","o","r","e"," ","a","n","d"," ","g","l","u","c","o","s","e"," ","1","2","0">>,
      <<"h","e","a","l","t","h"," ","s","c","o","r","e"," ","f","e","e","l","i","n","g"," ","s","a","d">>,
      <<"w","e","l","l","n","e","s","s"," ","s","c","o","r","e"," ","m","e","a","l">>,
      <<"c","a","l","o","r","i","e","s"," ","i","n"," ","m","y"," ","h","e","a","l","t","h"," ","s","c","o","r","e">>,
      <<"w","h","a","t"," ","i","s"," ","m","y"," ","g","l","u","c","o","s","e"," ","1","2","0","?">>,
      <<"h","o","w"," ","t","o"," ","p","l","a","n"," ","a"," ","m","e","a","l">>,
      <<"a","m"," ","I"," ","s","a","d","?">>,
      <<"W","h","y"," ","s","o"," ","s","a","d">>,
      <<" ","w","h","a","t"," ","g","l","u","c","o","s","e"," ","1","2","0">>,
      <<"g","l","u","c","o","s","e"," ","1","2","0">>,
      <<"M","y"," ","g","l","u","c","o","s","e"," ","i","s"," ","9","5"," ","t","o","d","a","y">>,
      <<"g","l","u","c","o","s","e"," ","1","2","0","0">>,
      <<"g","l","u","c","o","s","e"," ","1","2","0","m","g">>,
      <<"g","l","u","c","o","s","e"," ","5">>,
      <<"g","l","u","c","o","s","e"," ","4","5">>,
      <<"g","l","u","c","o","s","e"," ","1","2","0","0"," ","t","h","e","n"," ","9","5">>,
      <<"s","u","g","a","r"," ","l","e","v","e","l"," ","4","0","0">>,
      <<"I"," ","f","e","e","l"," ","s","a","d"," ","t","o","d","a","y">>,
      <<"f","e","e","l","i","n","g"," ","g","r","e","a","t">>,
      <<"g","l","u","c","o","s","e"," ","1","2","0"," ","f","e","e","l","i","n","g"," ","s","a","d">>,
      <<"s","a","d"," ","b","u","t"," ","H","a","p","p","y"," ","n","o","w">>,
      <<"p","l","a","n"," ","m","y"," ","d","i","n","n","e","r">>,
      <<"c","a","l","o","r","i","e","s"," ","i","n"," ","a","p","p","l","e">> }

\* the queries sent to the router in SpecRouter
RouterQueries ==
    { <<>>,
      <<"h","i">>,
      <<"W","h","y"," ","s","o"," ","s","a","d">>,
      <<"w","h","a","t"," ","i","s"," ","m","y"," ","g","l","u","c","o","s","e"," ","1","2","0","?">>,
      <<"h","o","w"," ","t","o"," ","p","l","a","n"," ","a"," ","m","e","a","l">>,
      <<"w","h","a","t"," ","i","s"," ","m","y"," ","h","e","a","l","t","h"," ","s","c","o","r","e">>,
      <<"g","l","u","c","o","s","e"," ","1","2","0">>,
      <<"M","y"," ","g","l","u","c","o","s","e"," ","i","s"," ","9","5"," ","t","o","d","a","y">>,
      <<"g","l","u","c","o","s","e"," ","1","2","0","m","g">>,
      <<"g","l","u","c","o","s","e"," ","1","2","0","0"," ","t","h","e","n"," ","9","5">>,
      <<"g","l","u","c","o","s","e"," ","4","5">>,
      <<"I"," ","f","e","e","l"," ","s","a","d"," ","t","o","d","a","y">>,
      <<"f","e","e","l","i","n","g"," ","g","r","e","a","t">>,
      <<"g","l","u","c","o","s","e"," ","1","2","0"," ","f","e","e","l","i","n","g"," ","s","a","d">>,
      <<"p","l","a","n"," ","m","y"," ","d","i","n","n","e","r">>,
      <<"c","a","l","o","r","i","e","s"," ","i","n"," ","a","p","p","l","e">> }

\* the user_id of the request: absent, a user, an unknown id
RouterUserIds == {None, Some(1), Some(NoUser)}

AnswerReplies ==
    { [kind |-> "raise"],
      [kind |-> "text", text |-> <<" ", "a", "n", "s", "w", "e", "r", "\n">>],
      [kind |-> "text", text |-> <<"o", "t", "h", "e", "r">>] }

MoodReplies ==
    { [kind |-> "raise"], [kind |-> "label", mood |-> <<"c", "a", "l", "m">>],
      [kind |-> "label", mood |-> <<"g", "r", "e", "a", "t">>] }

InitRouter ==
    /\ users \in {table \in PlannerUsers : table[1].dietary_preference = "vegetarian"}
    /\ mood_logs = <<>>
    /\ cgm_readings = <<>>
    /\ food_logs = <<>>
    /\ meal_plans = <<>>
    /\ nutrition_cache = <<>>
    /\ answer_cache = <<>>
    /\ pg = SeededPg
    /\ now = 0
    /\ last = NoCall
    /\ probe = NoProbe
    /\ conns = <<>>

\* one call of interrupt_agent
InterruptCall(user_id, query, replies, storeOk, pgOk) ==
    \E result \in {interrupt_agent(user_id, query, replies, storeOk, pgOk)} :
        /\ mood_logs' = result.mood_logs
        /\ cgm_readings' = result.cgm_readings
        /\ meal_plans' = result.meal_plans
        /\ answer_cache' = result.answer_cache
        /\ last' = Call("interrupt", "ask", IF user_id = None THEN 0 ELSE user_id[1],
                        [user_id |-> user_id, query |-> query, replies |-> replies],
                        storeOk /\ pgOk = "ok", result.resp)
        /\ UNCHANGED <<users, conns, food_logs, nutrition_cache, pg, now, probe>>

\* a request to the router; the service's replies are drawn for the prompt
\* the query leads to, the store fails where the branch uses it
Interrupt ==
    /\ TotalRows + Len(answer_cache) < MaxRouterEntries
    /\ \E query \in RouterQueries :
       \E branch \in {IF query = <<>> THEN "none" ELSE classify_question(query)} :
       \E user_id \in RouterUserIds,
          storeOk \in IF branch \in {"glucose_logging", "mood_logging", "meal_planning"}
                      THEN BOOLEAN ELSE {TRUE},
          answer \in IF branch \in {"informational", "app_help", "general"}
                     THEN AnswerReplies ELSE {[kind |-> "raise"]},
          mood \in IF /\ branch = "mood_logging"
                      /\ classify_mood_text(query, [kind |-> "raise"]) = neutral
                   THEN MoodReplies ELSE {[kind |-> "raise"]},
          meal \in IF branch = "meal_planning" THEN LaterReplies ELSE {[kind |-> "raise"]},
          pgOk \in IF branch = "health_score" THEN {"ok", "query", "connect"} ELSE {"ok"} :
          InterruptCall(user_id, query, [answer |-> answer, mood |-> mood, meal |-> meal],
                        storeOk, pgOk)

NextRouter == Interrupt

SpecRouter == InitRouter /\ [][NextRouter]_vars

----------------------------------------------------------------------------
(* The two lru_cache functions: questions to the router and meals logged   *)

\* entries of the two caches together
MaxCacheEntries == 2

CachedQueries == { <<"h","i">>,
      <<"h","e","l","p"," ","m","e">> }

CachedDescriptions == { <<"p","i","z","z","a">>,
      <<"s","t","e","w">> }

CachedReplies ==
    { [kind |-> "raise"], [kind |-> "text"],
      [kind |-> "object", wrapper |-> "bare", nested |-> FALSE,
       fields |-> Nutrition(JsonNum(2500), JsonNum(2500), JsonNum(2500), JsonNum(2500))] }

InitCaches == InitStore(SeedUsers, NoProbe)

AskCached ==
    /\ Len(answer_cache) + Len(nutrition_cache) < MaxCacheEntries
    /\ \E query \in CachedQueries, answer \in AnswerReplies :
          InterruptCall(None, query,
                        [answer |-> answer, mood |-> [kind |-> "raise"],
                         meal |-> [kind |-> "raise"]], TRUE, "ok")

LogCached ==
    /\ Len(answer_cache) + Len(nutrition_cache) < MaxCacheEntries
    /\ Len(food_logs) < MaxCacheEntries
    /\ \E d \in CachedDescriptions, r \in CachedReplies, ok \in BOOLEAN :
          FoodLog(1, d, r, ok)

NextCaches ==
    \/ AskCached
    \/ LogCached

SpecCaches == InitCaches /\ [][NextCaches]_vars

----------------------------------------------------------------------------
(* The router's pure functions: the query is drawn, then the function is   *)
(* applied                                                                 *)

InitClassify ==
    \E fn \in {"classify_question", "glucose_match"}, query \in Queries :
        InitStore(SeedUsers, [fn |-> fn, arg |-> Some(query), out |-> None])

ApplyClassify ==
    /\ probe.fn = "classify_question"
    /\ probe.out = None
    /\ probe' = [probe EXCEPT !.out = Some(classify_question(probe.arg[1]))]
    /\ UNCHANGED <<users, conns, router, tables, nutrition_cache, now, last>>

ApplyGlucoseMatch ==
    /\ probe.fn = "glucose_match"
    /\ probe.out = None
    /\ probe' = [probe EXCEPT !.out = Some(glucose_match(probe.arg[1]))]
    /\ UNCHANGED <<users, conns, router, tables, nutrition_cache, now, last>>

NextClassify ==
    \/ ApplyClassify
    \/ ApplyGlucoseMatch

SpecClassify == InitClassify /\ [][NextClassify]_vars

----------------------------------------------------------------------------
(* The health score alone: the content of the Postgres tables is drawn,    *)
(* the CGM handler's table holds the same readings, then                   *)
(* calculate_health_score and the CGM 'get_stats' are applied              *)

\* rows of mood_logs that the user has in the window
MaxHealthMoods == 3

HealthMoods ==
    UNION {[1..n -> {"happy", "sad"}] : n \in 0..MaxHealthMoods}
        \cup {<<"calm">>, <<"tired">>, <<"calm", "angry", "tired">>}

\* readings of the window: none, one at each side of 70, 80 and 180, and
\* several
HealthReadings ==
    { <<>>, <<69>>, <<70>>, <<79>>, <<80>>, <<180>>, <<181>>,
      <<75, 100>>, <<80, 181>>, <<75, 100, 200>>, <<100, 75, 120, 78>> }

\* meal descriptions of the window: none, repeated words in two cases, two
\* rows that share a word, and two rows of 21 different words
HealthMeals ==
    { <<>>,
      << <<"r","i","c","e">> >>,
      << <<"R","i","c","e"," ","r","i","c","e"," "," ","d","a","l">> >>,
      << <<"r","i","c","e"," ","d","a","l">>, <<"d","a","l","\n","s","o","u","p">> >>,
      << <<"a"," ","b"," ","c"," ","d"," ","e"," ","f"," ","g"," ","h"," ","i"," ","j"," ","k">>,
         <<"l"," ","m"," ","n"," ","o"," ","p"," ","q"," ","r"," ","s"," ","t"," ","u">> >> }

\* rows outside the score of user 1: one of each table older than the
\* window, one of each table of user 2
OtherPg ==
    [mood_logs |-> <<[user_id |-> 1, mood |-> "happy", timestamp |-> -8],
                     [user_id |-> 2, mood |-> "sad", timestamp |-> 0]>>,
     cgm_readings |-> <<[user_id |-> 1, glucose_reading |-> 300, timestamp |-> -8],
                        [user_id |-> 2, glucose_reading |-> 75, timestamp |-> -1]>>,
     food_logs |-> <<[user_id |-> 1, meal_description |-> <<"p","i","z","z","a">>,
                      timestamp |-> -8],
                     [user_id |-> 2, meal_description |-> <<"o","a","t","s">>,
                      timestamp |-> -7]>>]

\* the rows of user 1 within the window, after the other rows
HealthPg(moods, readings, meals, others) ==
    [mood_logs |-> others.mood_logs \o
         [i \in 1..Len(moods) |-> [user_id |-> 1, mood |-> moods[i], timestamp |-> -i]],
     cgm_readings |-> others.cgm_readings \o
         [i \in 1..Len(readings) |->
             [user_id |-> 1, glucose_reading |-> readings[i], timestamp |-> -i]],
     food_logs |-> others.food_logs \o
         [i \in 1..Len(meals) |->
             [user_id |-> 1, meal_description |-> meals[i], timestamp |-> -i]]]

\* the readings of the Postgres table as rows of the CGM handler's table
HandlerReadings(rows) ==
    [i \in 1..Len(rows) |->
        [user_id |-> rows[i].user_id, glucose_reading |-> rows[i].glucose_reading,
         alert_flag |-> StoredAlertFlag(rows[i].glucose_reading),
         timestamp |-> rows[i].timestamp]]

InitHealth ==
    \E moods \in HealthMoods, readings \in HealthReadings, meals \in HealthMeals,
       others \in {EmptyPg, OtherPg}, u \in UserIds :
        /\ users = SeedUsers
        /\ pg = HealthPg(moods, readings, meals, others)
        /\ cgm_readings = HandlerReadings(pg.cgm_readings)
        /\ mood_logs = <<>>
        /\ food_logs = <<>>
        /\ meal_plans = <<>>
        /\ nutrition_cache = <<>>
        /\ answer_cache = <<>>
        /\ now = 0
        /\ last = NoCall
        /\ probe = [fn |-> "calculate_health_score", arg |-> Some(u), out |-> None]
        /\ conns = <<>>

ApplyHealthScore ==
    /\ probe.fn = "calculate_health_score"
    /\ probe.out = None
    /\ \E pgOk \in {"ok", "query"} :
           probe' = [probe EXCEPT
                        !.out = calculate_health_score(probe.arg[1], pgOk)]
    /\ UNCHANGED <<users, conns, router, tables, nutrition_cache, now, last>>

\* the CGM handler's 'get_stats' for the same user
HealthCgmStats ==
    /\ probe.fn = "calculate_health_score"
    /\ last = NoCall
    /\ CgmGetStats(probe.arg[1], TRUE)

NextHealth == ApplyHealthScore \/ HealthCgmStats

SpecHealth == InitHealth /\ [][NextHealth]_vars

----------------------------------------------------------------------------
(* The three handlers over one store, with the clock *)

Init == InitStore(SeedUsers, NoProbe)

\* the requests of Spec
Requesters == {1, NoUser}

SomeMoods == { <<"H", "a", "p", "p", "y">>, <<"s", "t", "r", "e", "s", "s", "e", "d">> }

SomeReadings == {Some(65), Some(351)}

SomeMeals == { <<"a", "p", "p", "l", "e">> }

SomeReplies == { [kind |-> "raise"] }

LogMood ==
    \E u \in Requesters, m \in SomeMoods, insertOk \in BOOLEAN :
        /\ TotalRows < MaxRows
        /\ MoodLog(u, m, insertOk, TRUE)

LogCgm ==
    \E u \in Requesters, r \in SomeReadings, ok \in BOOLEAN :
        /\ TotalRows < MaxRows
        /\ CgmLog(u, r, ok)

GenerateCgm ==
    \E u \in Requesters :
        LET profile == get_user_baseline(u, TRUE)
        IN  /\ TotalRows < MaxRows
            /\ CgmGenerate(u, profile.max, 30, profile.diabetic, 60, TRUE, TRUE)

LogFood ==
    \E u \in Requesters, d \in SomeMeals, r \in SomeReplies, ok \in BOOLEAN :
        /\ TotalRows < MaxRows
        /\ FoodLog(u, d, r, ok)

GetStats ==
    \E u \in Requesters, ok \in BOOLEAN :
        \/ MoodGetStats(u, ok)
        \/ CgmGetStats(u, ok)
        \/ FoodGetStats(u, ok)

InvalidAction ==
    \E u \in Requesters :
        \/ MoodInvalidAction(u)
        \/ CgmInvalidAction(u)
        \/ FoodInvalidAction(u)

Next ==
    \/ LogMood
    \/ LogCgm
    \/ GenerateCgm
    \/ LogFood
    \/ GetStats
    \/ InvalidAction
    \/ Tick

Spec == Init /\ [][Next]_vars

----------------------------------------------------------------------------
(* The five handlers over one store *)

InitHandlers ==
    InitStore(CHOOSE table \in PlannerUsers : table[1].dietary_preference = "vegetarian",
              NoProbe)

\* 'generate' with the replies of SpecPlans and a JSON reply whose
\* breakfast is a string
PlanMeal ==
    \E u \in {0} \cup Requesters,
       reply \in LaterReplies \cup {JsonReply("nondict", "full", "full")},
       readOk \in BOOLEAN, insertOk \in BOOLEAN :
        /\ TotalRows < MaxRows
        /\ MealGenerate(u, reply, readOk, insertOk)

GetLatest ==
    \E u \in {0} \cup Requesters, readOk \in BOOLEAN : MealGetLatest(u, readOk)

DoGreet ==
    \E u \in {0} \cup Requesters, validateOk \in BOOLEAN, infoOk \in BOOLEAN :
        Greet(u, validateOk, infoOk)

NextHandlers ==
    \/ LogMood
    \/ LogCgm
    \/ GenerateCgm
    \/ LogFood
    \/ PlanMeal
    \/ GetStats
    \/ GetLatest
    \/ DoGreet
    \/ InvalidAction

SpecHandlers == InitHandlers /\ [][NextHandlers]_vars

----------------------------------------------------------------------------
(* The two get_stats operations over drawn histories: the rows of user 1   *)
(* are drawn in insertion order, then the statistics are asked for        *)

\* the scores of three moods, and a mood of each score
MoodOfScore(score) ==
    IF score = 3 THEN <<"h","a","p","p","y">>
    ELSE IF score = 2 THEN <<"t","i","r","e","d">>
    ELSE <<"s","a","d">>

\* moods by score, oldest first
TrendScores ==
    { <<1, 1, 3>>,
      <<1, 1, 3, 3>>,
      <<3, 3, 1, 1>>,
      <<1, 2, 2, 2>>,
      <<1, 1, 2, 2>>,
      <<1, 1, 1, 3, 3>>,
      <<2, 2, 2, 2, 3, 3, 1, 2, 2, 2, 2, 2>>,
      <<1, 2, 2, 2, 2, 2, 2, 2, 2, 2, 3, 3>> }

\* readings, oldest first
TrendReadings ==
    { <<100, 100, 200>>,
      <<100, 100, 120, 120>>,
      <<120, 120, 100, 100>>,
      <<100, 100, 115, 115>>,
      <<100, 100, 116, 115>>,
      <<100, 101, 100, 120, 130>>,
      <<113, 113, 114, 128, 128, 129>>,
      <<75, 76, 76, 60, 61, 61>>,
      <<200, 200, 100, 100, 100, 100, 100, 100>> }

\* the times at which the statistics are asked for
TrendNows == {8, 10}

\* the day of the i-th of n rows: one row a day up to day 8, and the older
\* rows on day 7, the floor(n/2) newer ones on day 8, when there are more
TrendDay(i, n) ==
    IF n <= 8 THEN 8 - n + i
    ELSE IF i <= n - (n \div 2) THEN 7 ELSE 8

InitTrend ==
    \E scores \in TrendScores, readings \in TrendReadings, t \in TrendNows :
        /\ users = SeedUsers
        /\ mood_logs = [i \in 1..Len(scores) |->
                           [user_id |-> 1, mood |-> MoodOfScore(scores[i]),
                            timestamp |-> TrendDay(i, Len(scores))]]
        /\ cgm_readings = [i \in 1..Len(readings) |->
                              [user_id |-> 1, glucose_reading |-> readings[i],
                               alert_flag |-> StoredAlertFlag(readings[i]),
                               timestamp |-> TrendDay(i, Len(readings))]]
        /\ food_logs = <<>>
        /\ meal_plans = <<>>
        /\ nutrition_cache = <<>>
        /\ answer_cache = <<>>
        /\ pg = EmptyPg
        /\ now = t
        /\ last = NoCall
        /\ probe = NoProbe
        /\ conns = <<>>

NextTrend == DoMoodGetStats \/ DoCgmGetStats

SpecTrend == InitTrend /\ [][NextTrend]_vars

----------------------------------------------------------------------------
(* Log requests in flight: each has its own SQLite connection; the INSERT  *)
(* takes the file's write lock, the commit makes the row visible and       *)
(* releases the lock                                                       *)

\* log requests in flight at the same time
MaxRequests == 2

\* the 'log' requests of user 1 that are drawn
LogRequests ==
    { [agent |-> "mood", mood |-> <<"h", "a", "p", "p", "y">>, glucose_reading |-> 0],
      [agent |-> "mood", mood |-> <<"s", "a", "d">>, glucose_reading |-> 0],
      [agent |-> "cgm", mood |-> <<>>, glucose_reading |-> 100],
      [agent |-> "cgm", mood |-> <<>>, glucose_reading |-> 300] }

\* the rows the tables hold before the requests
EarlierMoods == <<[user_id |-> 1, mood |-> <<"c", "a", "l", "m">>, timestamp |-> 0]>>

EarlierReadings ==
    <<[user_id |-> 1, glucose_reading |-> 90, alert_flag |-> FALSE, timestamp |-> 0]>>

\* a connection has executed its INSERT and not committed: it holds the
\* write lock of the file
WriteLocked == \E q \in DOMAIN conns : conns[q].pc = "inserted"

InitConcurrent ==
    /\ users = SeedUsers
    /\ mood_logs = EarlierMoods
    /\ cgm_readings = EarlierReadings
    /\ food_logs = <<>>
    /\ meal_plans = <<>>
    /\ nutrition_cache = <<>>
    /\ answer_cache = <<>>
    /\ pg = EmptyPg
    /\ now = 0
    /\ last = NoCall
    /\ probe = NoProbe
    /\ conns \in [1..MaxRequests ->
                    {[request |-> r, pc |-> "start", resp |-> [success |-> FALSE]] :
                        r \in LogRequests}]

\* cursor.execute(INSERT ...) of log_mood / log_cgm_reading: it waits while
\* another connection holds the write lock
ExecuteInsert(p) ==
    /\ conns[p].pc = "start"
    /\ ~WriteLocked
    /\ conns' = [conns EXCEPT ![p].pc = "inserted"]
    /\ UNCHANGED <<users, router, tables, nutrition_cache, now, last, probe>>

\* the wait for the lock ends at the timeout of the connection (5 seconds):
\* 'database is locked' is caught, the log function returns False and
\* process answers database_error
BusyTimeout(p) ==
    /\ conns[p].pc = "start"
    /\ WriteLocked
    /\ conns' = [conns EXCEPT ![p].pc = "done", ![p].resp = Failure("database_error")]
    /\ UNCHANGED <<users, router, tables, nutrition_cache, now, last, probe>>

\* conn.commit()
Commit(p) ==
    /\ conns[p].pc = "inserted"
    /\ conns' = [conns EXCEPT ![p].pc = "committed"]
    /\ IF conns[p].request.agent = "mood"
       THEN /\ mood_logs' = log_mood(1, conns[p].request.mood)
            /\ UNCHANGED cgm_readings
       ELSE /\ cgm_readings' = log_cgm_reading(1, conns[p].request.glucose_reading)
            /\ UNCHANGED mood_logs
    /\ UNCHANGED <<users, router, food_logs, meal_plans, nutrition_cache, now, last, probe>>

\* the rest of process(): the mood handler reads the history, the CGM
\* handler classifies the reading
Respond(p) ==
    /\ conns[p].pc = "committed"
    /\ conns' = [conns EXCEPT
           ![p].pc = "done",
           ![p].resp =
               IF conns[p].request.agent = "mood"
               THEN LET mood_history == get_mood_history(1, mood_logs, TRUE)
                    IN  [success |-> TRUE,
                         logged_mood |-> conns[p].request.mood,
                         mood_stats |-> calculate_mood_stats(mood_history),
                         mood_history |-> LastSeven(mood_history)]
               ELSE CgmReadingResponse(conns[p].request.glucose_reading)]
    /\ UNCHANGED <<users, router, tables, nutrition_cache, now, last, probe>>

NextConcurrent ==
    \E p \in 1..MaxRequests :
        \/ ExecuteInsert(p)
        \/ BusyTimeout(p)
        \/ Commit(p)
        \/ Respond(p)

SpecConcurrent == InitConcurrent /\ [][NextConcurrent]_vars

----------------------------------------------------------------------------
(* Claims *)

Statuses ==
    {"critically_low", "low", "normal", "elevated", "high", "critically_high"}

\* the status the claim's breakpoints give a reading
BandOf(r) ==
    CASE r < 70 -> "critically_low"
      [] r \in 70..79 -> "low"
      [] r \in 80..140 -> "normal"
      [] r \in 141..180 -> "elevated"
      [] r \in 181..250 -> "high"
      [] r > 250 -> "critically_high"

LastRow(table) == table[Len(table)]

\* C1: get_glucose_status returns for every integer reading exactly the one
\* of the six statuses whose band holds the reading: below 70 critically_low,
\* 70..79 low, 80..140 normal, 141..180 elevated, 181..250 high, above 250
\* critically_high.
C1_StatusBands ==
    (probe.fn = "get_glucose_status" /\ probe.out # None) =>
        /\ probe.out[1] \in Statuses
        /\ probe.out[1] = BandOf(probe.arg[1])

\* C1 witness: the reading 70 has been classified (as low).
C1_Witness ==
    /\ probe.fn = "get_glucose_status"
    /\ probe.arg = Some(70)
    /\ probe.out = Some("low")

\* C2: a CGM 'log' call that carries a user id and a reading below 60 or
\* above 350 answers success=false with error invalid_range and leaves
\* cgm_readings as it was; every row a 'log' call appends has its reading
\* in 60..350.
C2_LogRange ==
    [][ (last'.agent = "cgm" /\ last'.action = "log") =>
          /\ (/\ last'.user_id # 0
              /\ last'.arg # None
              /\ (last'.arg[1] < 60 \/ last'.arg[1] > 350))
             => /\ ~last'.resp.success
                /\ last'.resp.error = "invalid_range"
                /\ cgm_readings' = cgm_readings
          /\ (cgm_readings' # cgm_readings)
             => /\ cgm_readings' = Append(cgm_readings, LastRow(cgm_readings'))
                /\ LastRow(cgm_readings').glucose_reading \in 60..350
      ]_vars

\* C2 witness: a 'log' of the reading 351 was refused with invalid_range.
C2_Witness ==
    /\ last.agent = "cgm" /\ last.action = "log"
    /\ last.arg = Some(351)
    /\ ~last.resp.success
    /\ last.resp.error = "invalid_range"

\* C3: after an accepted CGM 'log' of the reading r, the alert flag stored
\* with the row and the alert_flag of the response are equal and are true
\* exactly when r < 70 or r > 300; 65 is critically_low with the flag set,
\* 190 is high with the flag clear.
C3_AlertFlag ==
    (last.agent = "cgm" /\ last.action = "log" /\ last.resp.success) =>
        LET r == last.arg[1]
            row == LastRow(cgm_readings)
        IN  /\ row.glucose_reading = r
            /\ row.alert_flag = last.resp.alert_flag
            /\ last.resp.alert_flag <=> (r < 70 \/ r > 300)
            /\ (r = 65) => (last.resp.status = "critically_low" /\ last.resp.alert_flag)
            /\ (r = 190) => (last.resp.status = "high" /\ ~last.resp.alert_flag)

\* C3 witness: the reading 190 was logged, with status high and no alert.
C3_Witness ==
    /\ last.agent = "cgm" /\ last.action = "log"
    /\ last.resp.success
    /\ last.arg = Some(190)
    /\ last.resp.status = "high"
    /\ ~LastRow(cgm_readings).alert_flag

C5_RowsCarryExistingUser ==
    /\ \A i \in 1..Len(mood_logs) : mood_logs[i].user_id \in DOMAIN users
    /\ \A i \in 1..Len(cgm_readings) : cgm_readings[i].user_id \in DOMAIN users
    /\ \A i \in 1..Len(food_logs) : food_logs[i].user_id \in DOMAIN users
    /\ \A i \in 1..Len(meal_plans) : meal_plans[i].user_id \in DOMAIN users

\* the keys of mood_values
MoodKeys == {mood_values[i].mood : i \in 1..Len(mood_values)}

RowsOf(table, u) == {i \in 1..Len(table) : table[i].user_id = u}

\* C7: when a get_stats call for user u follows at once (the store being
\* reachable and no time having passed) a successful log call of the same
\* handler for u, its result holds the logged entry; for the mood handler
\* total_entries counts it, and if u has no other mood entry
\* total_entries = 1 and average_score is the score of the logged mood.
C7_LogThenStats ==
    [][ (/\ last.action = "log" /\ last.resp.success /\ last.store_ok
         /\ last.at = now
         /\ last'.action = "get_stats" /\ last'.agent = last.agent
         /\ last'.user_id = last.user_id /\ last'.store_ok) =>
          /\ last'.resp.success
          /\ (last.agent = "mood") =>
                LET h == last'.resp.mood_history
                    st == last'.resp.mood_stats
                IN  /\ \E i \in 1..Len(h) :
                          h[i].mood = Lower(last.arg) /\ h[i].timestamp = last.at
                    /\ st.total_entries = Len(h)
                    /\ st.total_entries >= 1
                    /\ (Cardinality(RowsOf(mood_logs, last.user_id)) = 1) =>
                          /\ st.total_entries = 1
                          /\ st.average_score = 10 * mood_values_get(Lower(last.arg), 0)
          /\ (last.agent = "cgm") =>
                LET h == last'.resp.cgm_history
                    st == last'.resp.cgm_stats
                IN  /\ \E i \in 1..Len(h) :
                          h[i].glucose_reading = last.arg[1] /\ h[i].timestamp = last.at
                    /\ st.total_readings = Len(h)
                    /\ st.total_readings >= 1
                    /\ (Cardinality(RowsOf(cgm_readings, last.user_id)) = 1) =>
                          st.average_reading = 10 * last.arg[1]
          /\ (last.agent = "food") =>
                LET rows == last'.resp.nutrition_analysis[1]
                IN  \E i \in 1..Len(rows) :
                       /\ rows[i].meal_description = last.arg
                       /\ rows[i].timestamp = last.at
      ]_vars

\* C7 witness: get_stats for user 1, whose one mood entry is happy, reports
\* one entry and the average score 3.
C7_Witness ==
    /\ last.agent = "mood" /\ last.action = "get_stats"
    /\ last.user_id = 1 /\ last.store_ok
    /\ Cardinality(RowsOf(mood_logs, 1)) = 1
    /\ mood_logs[CHOOSE i \in RowsOf(mood_logs, 1) : TRUE].mood = <<"h", "a", "p", "p", "y">>
    /\ mood_logs[CHOOSE i \in RowsOf(mood_logs, 1) : TRUE].timestamp = last.at
    /\ last.resp.mood_stats.total_entries = 1
    /\ last.resp.mood_stats.average_score = 30

\* two successive get_stats calls of one handler for one user, the store
\* answering both
TwoStatsCalls ==
    /\ last.action = "get_stats" /\ last'.action = "get_stats"
    /\ last'.agent = last.agent /\ last'.user_id = last.user_id
    /\ last.store_ok /\ last'.store_ok
    /\ tables' = tables

InWindowAt(table, u, t) == {i \in RowsOf(table, u) : table[i].timestamp >= t - 7}

TableMatches(i, meal_description) ==
    LET d == Strip(Lower(meal_description))
        food == PREDEFINED_NUTRITION[i].food
    IN  /\ meal_description # <<>>
        /\ (food = d \/ Contains(d, food) \/ Contains(food, d))

TableEntry(i) ==
    LET e == PREDEFINED_NUTRITION[i]
    IN  Nutrition(Num(e.calories), Num(e.protein), Num(e.carbohydrates), Num(e.fat))

\* C9: for a meal description that an entry of the food table matches,
\* analyze_nutrition returns an entry that matches it, does not call the
\* generative-text service and leaves the reply cache alone; when the
\* description equals a key, the entry returned is the one of that key.
C9_TableFirst ==
    (probe.fn = "analyze_nutrition" /\ probe.out # None) =>
        LET d == probe.arg[1].meal_description
            out == probe.out[1]
            n == Len(PREDEFINED_NUTRITION)
        IN  (\E i \in 1..n : TableMatches(i, d)) =>
               /\ ~out.llm_called
               /\ nutrition_cache = <<>>
               /\ \E i \in 1..n : TableMatches(i, d) /\ out.result = TableEntry(i)
               /\ \A i \in 1..n :
                     (PREDEFINED_NUTRITION[i].food = Strip(Lower(d)))
                         => out.result = TableEntry(i)

\* C9 witness: grapefruit was analysed and answered from the entry of grape
\* without a call of the service.
C9_Witness ==
    /\ probe.fn = "analyze_nutrition" /\ probe.out # None
    /\ probe.arg[1].meal_description
           = <<"g", "r", "a", "p", "e", "f", "r", "u", "i", "t">>
    /\ probe.arg[1].reply.kind = "text"
    /\ ~probe.out[1].llm_called
    /\ probe.out[1].result.calories = Num(1040)

\* C10: the nutrition values a food 'log' call obtains are four numbers and
\* every row of food_logs has its four nutrition fields non-null (the
\* statement of the claim, which the code does not meet: float() turns the
\* text "nan" and the literal NaN into nan, which the store keeps as NULL).
C10_NutritionNonNull ==
    /\ \A i \in 1..Len(food_logs) :
          /\ food_logs[i].estimated_calories.t = "num"
          /\ food_logs[i].estimated_protein.t = "num"
          /\ food_logs[i].estimated_carbs.t = "num"
          /\ food_logs[i].estimated_fat.t = "num"
    /\ (last.agent = "food" /\ last.action = "log" /\ last.resp.success) =>
          \A f \in NutritionFields : last.resp.nutrition_analysis[1][f].t = "num"

\* the question types interrupt_agent answers through answer_query_cached
AnswerTypes == {"informational", "app_help", "general"}

\* a step that is a router call answered through answer_query_cached
AnswerStep ==
    /\ last'.agent = "interrupt"
    /\ last'.resp.success
    /\ last'.resp.question_type \in AnswerTypes

\* a step that is a food 'log' call whose description the table does not
\* hold
LookupStep ==
    /\ last'.agent = "food" /\ last'.action = "log"
    /\ last'.arg # <<>>
    /\ get_predefined_nutrition(last'.arg) = None

\* C11: once a call has been made for a router query or a meal description,
\* the key stays cached with the reply of that call (the bounds stay below
\* the 128 entries that evict), and a later request with the same key is
\* answered with the cached reply and without a call of the service,
\* whatever the service would answer now; the error answer and the default
\* values of a failed call are cached like any reply.
C11_CachedNotRetried ==
    [][ /\ \A i \in 1..Len(answer_cache) :
              \E j \in 1..Len(answer_cache') :
                 /\ answer_cache'[j].key = answer_cache[i].key
                 /\ answer_cache'[j].content.source = answer_cache[i].content.source
                 /\ answer_cache'[j].content.answer = answer_cache[i].content.answer
        /\ \A i \in 1..Len(nutrition_cache) :
              \E j \in 1..Len(nutrition_cache') : nutrition_cache'[j] = nutrition_cache[i]
        /\ AnswerStep =>
              /\ \E j \in 1..Len(answer_cache') :
                    answer_cache'[j].key = last'.arg.query
              /\ \A i \in 1..Len(answer_cache) :
                    answer_cache[i].key = last'.arg.query =>
                       /\ ~last'.resp.llm_called
                       /\ last'.resp.response_source = answer_cache[i].content.source
                       /\ last'.resp.message = answer_cache[i].content.answer
        /\ LookupStep =>
              /\ \E j \in 1..Len(nutrition_cache') :
                    nutrition_cache'[j].key = last'.arg
              /\ \A i \in 1..Len(nutrition_cache) :
                    (nutrition_cache[i].key = last'.arg /\ last'.resp.success) =>
                       /\ ~last'.resp.llm_called
                       /\ last'.resp.nutrition_analysis =
                             Some(parse_nutrition_response(nutrition_cache[i].content))
      ]_vars

\* C11 witness: a query whose first call failed is asked again when the
\* service would answer, and the router returns the cached error answer
\* without calling it.
C11_Witness ==
    /\ last.agent = "interrupt"
    /\ last.resp.success
    /\ last.resp.question_type \in AnswerTypes
    /\ last.arg.replies.answer.kind = "text"
    /\ ~last.resp.llm_called
    /\ last.resp.response_source = "error"
    /\ last.resp.message = ErrorAnswer.answer

\* C16: every query that holds a health-score keyword is classified as
\* health_score, also when it holds keywords of the glucose, mood, meal or
\* nutrition rules (the statement of the claim, which the code does not
\* meet: classify_question tests the health-score keywords after those
\* four rules).
C16_HealthScoreFirst ==
    (/\ probe.fn = "classify_question"
     /\ probe.out # None
     /\ AnyIn(health_score_keywords, Lower(probe.arg[1])))
        => probe.out[1] = "health_score"

\* the question types that make interrupt_agent log a reading, log a mood
\* or generate a plan
LoggingTypes == {"glucose_logging", "mood_logging", "meal_planning"}

\* the question marker of a query: its text, in lower case, starts with
\* one of the question words or holds a question mark
QuestionMarker(query) ==
    LET text == Lower(query)
        words == { <<"w","h","y">>, <<"h","o","w">>, <<"w","h","a","t">>,
                   <<"w","h","e","n">>, <<"w","h","e","r","e">>,
                   <<"w","h","i","c","h">>, <<"w","h","o">> }
    IN  \/ \E w \in words : Len(text) >= Len(w) /\ \A i \in 1..Len(w) : text[i] = w[i]
        \/ \E i \in 1..Len(text) : text[i] = "?"

\* C17: a query that carries a question marker is not classified as
\* glucose_logging, mood_logging or meal_planning, and the call of the
\* router for it leaves cgm_readings, mood_logs and meal_plans as they were.
C17_QuestionsNotLogged ==
    [][ (/\ last'.agent = "interrupt"
         /\ last'.arg.query # <<>>
         /\ QuestionMarker(last'.arg.query))
        => /\ classify_question(last'.arg.query) \notin LoggingTypes
           /\ "question_type" \in DOMAIN last'.resp =>
                 last'.resp.question_type \notin LoggingTypes
           /\ cgm_readings' = cgm_readings
           /\ mood_logs' = mood_logs
           /\ meal_plans' = meal_plans ]_vars

\* C17 witness: 'Why so sad', which holds a mood keyword, was answered as a
\* question of a user and no mood was logged.
C17_Witness ==
    /\ last.agent = "interrupt"
    /\ last.arg.user_id = Some(1)
    /\ last.store_ok
    /\ QuestionMarker(last.arg.query)
    /\ AnyIn(keywords.mood, Lower(last.arg.query))
    /\ last.resp.question_type = "informational"
    /\ mood_logs = <<>>

\* the value of a run of decimal digits
RECURSIVE DigitsValue(_)
DigitsValue(run) ==
    IF run = <<>> THEN 0
    ELSE 10 * DigitsValue(SubSeq(run, 1, Len(run) - 1))
            + (CHOOSE d \in 0..9 : ToString(d) = run[Len(run)])

\* the first number of two or three digits that stands in the text as a
\* word of its own (no letter, digit or underscore right before it or right
\* after it), or None
StandaloneNumber(query) ==
    LET n == Len(query)
        Word(i) == 1 <= i /\ i <= n /\ query[i] \in WordChars
        Number(i, j) ==
            /\ j <= n
            /\ \A k \in i..j : query[k] \in DigitChars
            /\ ~Word(i - 1)
            /\ ~Word(j + 1)
        starts == {i \in 1..n : Number(i, i + 1) \/ Number(i, i + 2)}
        first == CHOOSE i \in starts : \A k \in starts : i <= k
        final == IF Number(first, first + 2) THEN first + 2 ELSE first + 1
    IN  IF starts = {} THEN None ELSE Some(DigitsValue(SubSeq(query, first, final)))

\* a step that is a router call for a query classified as glucose_logging
GlucoseStep ==
    /\ last'.agent = "interrupt"
    /\ "question_type" \in DOMAIN last'.resp
    /\ last'.resp.question_type = "glucose_logging"

\* what a router call does with the number it is to log: without a number
\* it fails and logs nothing; with one, it succeeds exactly when the CGM
\* 'log' of that number for the user succeeds, which appends the reading
LogsNumber(number) ==
    IF number = None
    THEN ~last'.resp.success /\ cgm_readings' = cgm_readings
    ELSE IF last'.user_id # 0 /\ ReadingInRange(number[1]) /\ last'.store_ok
    THEN /\ last'.resp.success
         /\ last'.resp.message.glucose_reading = number[1]
         /\ cgm_readings' = Append(cgm_readings, CgmRow(last'.user_id, number[1]))
    ELSE ~last'.resp.success /\ cgm_readings' = cgm_readings

MoodText(query) ==
    LET text == Lower(query)
    IN  /\ AnyIn(keywords.mood, text)
        /\ ~QuestionMarker(query)

\* a rule of classify_question that is tried before the mood rule applies
\* to the text: a health-score keyword, or a glucose keyword and a digit
EarlierRule(query) ==
    LET text == Lower(query)
    IN  \/ AnyIn(health_score_keywords, text)
        \/ /\ \E i \in 1..Len(query) : query[i] \in DigitChars
           /\ AnyIn(keywords.glucose, text)

\* a step that is a router call, with a user id and a working store, for a
\* free text that carries no question marker and holds a mood keyword
MoodTextStep ==
    /\ last'.agent = "interrupt"
    /\ last'.arg.user_id # None /\ last'.user_id # 0
    /\ last'.store_ok
    /\ last'.arg.query # <<>>
    /\ MoodText(last'.arg.query)

\* the mood labels that a text holds, in lower case
MoodLabels(query) ==
    LET text == Lower(query)
    IN  {m \in MoodKeys : Contains(text, m)}

\* the call was routed to the mood log: it answers success with a logged
\* mood that is a key of mood_values or the neutral category, the one label
\* the text holds when it holds exactly one, and mood_logs has gained the
\* row of that mood for the user
MoodLogged ==
    /\ last'.resp.question_type = "mood_logging"
    /\ last'.resp.success
    /\ last'.resp.message.logged_mood \in MoodKeys \cup {neutral}
    /\ \E labels \in {MoodLabels(last'.arg.query)} :
           Cardinality(labels) = 1 => last'.resp.message.logged_mood \in labels
    /\ mood_logs' = Append(mood_logs,
                           [user_id |-> last'.user_id,
                            mood |-> last'.resp.message.logged_mood,
                            timestamp |-> now])

HealthScoreWithoutUser ==
    /\ last.agent = "interrupt"
    /\ last.arg.user_id = None
    /\ last.arg.query # <<>>
    /\ classify_question(last.arg.query) = "health_score"

\* C20: a health-score request without a user_id is answered with
\* success=true and the message that asks for the user id; no database is
\* read (so the answer is the same when Postgres is down) and no exception
\* leaves the router.
C20_AsksForUserId ==
    HealthScoreWithoutUser =>
        /\ last.resp.success
        /\ "error" \notin DOMAIN last.resp
        /\ last.resp.question_type = "health_score"
        /\ last.resp.response_source = "system"
        /\ last.resp.message = "I need your user ID to calculate your health score."
        /\ ~last.resp.store_used
        /\ ~last.resp.llm_called

\* C20 witness: 'what is my health score' was asked without a user_id while
\* Postgres could not be reached, and the router asked for the id.
C20_Witness ==
    /\ HealthScoreWithoutUser
    /\ ~last.store_ok
    /\ last.resp.success
    /\ last.resp.response_source = "system"

\* the number a nutrition column adds to a sum (NULL adds nothing)
ColumnValue(value) == IF value.t = "num" THEN value.v ELSE 0

RECURSIVE ColumnSum(_, _)
ColumnSum(rows, column) ==
    IF rows = <<>> THEN 0
    ELSE ColumnValue(Head(rows)[column]) + ColumnSum(Tail(rows), column)

FoodColumns ==
    {"estimated_calories", "estimated_carbs", "estimated_protein", "estimated_fat"}

\* C12: a successful food get_stats call returns, over the recent window
\* of the user's entries, the sum and the average of each of the four
\* nutrition fields and the days covered, which is entries / 3 (the
\* statement of the claim, which the code does not meet: the response holds
\* the user's rows of any age and no aggregate).
C12_FoodStats ==
    (last.agent = "food" /\ last.action = "get_stats" /\ last.resp.success) =>
        LET InWindow(row) == /\ row.user_id = last.user_id
                             /\ row.timestamp >= last.at - HistoryDays
            rows == SelectSeq(food_logs, InWindow)
        IN  /\ {"totals", "averages", "days_covered"} \subseteq DOMAIN last.resp
            /\ \A c \in FoodColumns :
                  /\ last.resp.totals[c] = ColumnSum(rows, c)
                  /\ last.resp.averages[c] * Len(rows) = ColumnSum(rows, c)
            /\ last.resp.days_covered * 3 = Len(rows)

\* a meal of a plan that is a dict with name, description and nutrition
CompleteMeal(meal) ==
    /\ meal.t = "dict"
    /\ meal.name # None
    /\ meal.description # None
    /\ meal.estimated_nutrition # None

CompletePlan(meal_plan) == \A m \in MealTypes : CompleteMeal(meal_plan[m])

\* C13: every plan a successful 'generate' call returns, and every plan in
\* meal_plans, holds breakfast, lunch and dinner, each with a name, a
\* description and nutrition, whatever the service replied (the statement
\* of the claim, which the code does not meet: a JSON reply is returned as
\* it is, and a meal without a parsed section stays an empty dict).
C13_PlanComplete ==
    /\ \A i \in 1..Len(meal_plans) : CompletePlan(meal_plans[i].plan_data)
    /\ (last.agent = "meal" /\ last.action = "generate" /\ last.resp.success) =>
          CompletePlan(last.resp.meal_plan)

\* the plan the parser builds for a reply no meal can be parsed from
UnparsedPlan(reply) ==
    IF reply.kind = "none"
    THEN PlaceholderPlan("AI Generated Meal Plan", ZeroNutrition, "error")
    ELSE IF reply.figures
    THEN PlaceholderPlan("Meal Option", ReplyNutrition, "ai")
    ELSE PlaceholderPlan("Personalized Meal Plan", ZeroNutrition, "format")

\* a reply no meal can be parsed from
Unparsed(reply) ==
    \/ reply.kind = "none"
    \/ /\ reply.kind = "text"
       /\ \A m \in MealTypes : ~ParsedSection(reply.meals[m]) /\ ~ParsedSection(reply.again[m])

\* a successful 'generate' call was the last call, and its row is the last
GenerateDone ==
    /\ last.agent = "meal" /\ last.action = "generate" /\ last.resp.success
    /\ meal_plans # <<>>
    /\ meal_plans[Len(meal_plans)].plan_data = last.resp.meal_plan
    /\ meal_plans[Len(meal_plans)].user_id = last.user_id

\* C14 as stated: when the call of the service raises or its reply cannot
\* be parsed into any meal, a successful 'generate' persists and returns
\* the offline plan of generate_fallback_meal_plan for the user's dietary
\* preference and conditions.
C14_FallbackPlan ==
    (/\ last.agent = "meal" /\ last.action = "generate" /\ last.resp.success
     /\ (last.arg.kind = "raise" \/ Unparsed(last.arg))) =>
        /\ GenerateDone
        /\ last.resp.meal_plan =
              generate_fallback_meal_plan(users[last.user_id].dietary_preference,
                                          users[last.user_id].diabetic)

\* C14 as amended: when the call raises, a successful 'generate' persists
\* and returns the offline plan for the user's dietary preference and
\* conditions; when the reply cannot be parsed into any meal, it persists
\* and returns the parser's placeholder plan, three complete meals built
\* from the reply.
C14_FallbackOnRaise ==
    (last.agent = "meal" /\ last.action = "generate" /\ last.resp.success) =>
        /\ last.arg.kind = "raise" =>
              /\ GenerateDone
              /\ last.resp.meal_plan =
                    generate_fallback_meal_plan(users[last.user_id].dietary_preference,
                                                users[last.user_id].diabetic)
        /\ Unparsed(last.arg) =>
              /\ GenerateDone
              /\ last.resp.meal_plan = UnparsedPlan(last.arg)
              /\ CompletePlan(last.resp.meal_plan)

\* C14 witness: the call raised for the diabetic non-vegetarian user and
\* the offline plan with the fish salad was saved and returned.
C14_Witness ==
    /\ GenerateDone
    /\ last.arg.kind = "raise"
    /\ users[last.user_id].dietary_preference = "non-vegetarian"
    /\ users[last.user_id].diabetic
    /\ last.resp.meal_plan.lunch.name = Some("Grilled Fish Salad")
    /\ last.resp.meal_plan.special_notes = "offline"

\* C15: get_latest returns the plan of the user's last 'generate' call, the
\* most recently created one also when two plans share the creation
\* timestamp, never a plan of another user, and no_plans_found when the
\* user has no plan (the statement of the claim, which the code does not
\* meet: of two plans of one timestamp the first is returned).
C15_LatestPlan ==
    (last.agent = "meal" /\ last.action = "get_latest" /\ last.user_id # 0
                         /\ last.store_ok) =>
        LET Mine(row) == row.user_id = last.user_id
            rows == SelectSeq(meal_plans, Mine)
        IN  IF rows = <<>>
            THEN ~last.resp.success /\ last.resp.error = "no_plans_found"
            ELSE /\ last.resp.success
                 /\ last.resp.meal_plan = rows[Len(rows)].plan_data

\* the keys of the dict that interrupt_agent returns
EnvelopeKeys ==
    {"success", "message", "question_type", "response_source",
     "navigation_suggestion", "continue_flow"}

\* C21: every call of the router, on every branch, is answered with the
\* envelope of the six keys, and its continue_flow is true.
C21_UniformEnvelope ==
    last.agent = "interrupt" =>
        /\ EnvelopeKeys \subseteq DOMAIN last.resp
        /\ last.resp.continue_flow = TRUE

\* the rows of a Postgres table that the score of user u reads: the user's
\* rows of the last 7 days
ScoreRows(table, u) ==
    LET Recent(row) == row.user_id = u /\ row.timestamp >= now - 7
    IN  SelectSeq(table, Recent)

\* the words of a text, split at white space
RECURSIVE SplitWords(_)
SplitWords(s) ==
    IF s = <<>> THEN {}
    ELSE IF IsSpace(Head(s)) THEN SplitWords(Tail(s))
    ELSE LET k == CHOOSE j \in 1..Len(s) :
                      /\ \A i \in 1..j : ~IsSpace(s[i])
                      /\ j = Len(s) \/ IsSpace(s[j + 1])
         IN  {SubSeq(s, 1, k)} \cup SplitWords(SubSeq(s, k + 1, Len(s)))

\* score, in tenths, is the value num / den (in tenths) rounded to a tenth
NearTenths(score, num, den) ==
    /\ 2 * (den * score - num) <= den
    /\ 2 * (num - den * score) <= den

\* the last application of calculate_health_score returned with success
HealthScoreReturned ==
    /\ probe.fn = "calculate_health_score"
    /\ probe.out # None
    /\ probe.out[1].success

\* C22: calculate_health_score returns, to the one decimal it rounds to,
\* mood = 10 x the share of happy and calm among the user's moods of the
\* window, nutrition = min(10, unique words / 2), a glucose score that is
\* 10 x a share of the user's readings, each of them 5.0 when the user has
\* no rows of the kind, and overall = 0.3 mood + 0.4 glucose +
\* 0.3 nutrition of these shares; every score lies in 0..10.
C22_WeightedScore ==
    HealthScoreReturned =>
        LET u == probe.arg[1]
            out == probe.out[1]
            moods == ScoreRows(pg.mood_logs, u)
            readings == ScoreRows(pg.cgm_readings, u)
            meals == ScoreRows(pg.food_logs, u)
            Positive(row) == row.mood \in {"happy", "calm"}
            words == UNION {SplitWords(Lower(meals[i].meal_description)) :
                               i \in 1..Len(meals)}
            mood == IF moods = <<>> THEN <<1, 2>>
                    ELSE <<Len(SelectSeq(moods, Positive)), Len(moods)>>
            nutrition == IF meals = <<>> THEN <<1, 2>>
                         ELSE IF Cardinality(words) >= 20 THEN <<1, 1>>
                         ELSE <<Cardinality(words), 20>>
            shares == IF readings = <<>> THEN {<<1, 2>>}
                      ELSE {<<h, Len(readings)>> : h \in 0..Len(readings)}
        IN  /\ NearTenths(out.mood_score, 100 * mood[1], mood[2])
            /\ NearTenths(out.nutrition_score, 100 * nutrition[1], nutrition[2])
            /\ \E glucose \in shares :
                   /\ NearTenths(out.glucose_score, 100 * glucose[1], glucose[2])
                   /\ NearTenths(out.overall_score,
                                 30 * mood[1] * glucose[2] * nutrition[2]
                                   + 40 * glucose[1] * mood[2] * nutrition[2]
                                   + 30 * nutrition[1] * mood[2] * glucose[2],
                                 mood[2] * glucose[2] * nutrition[2])
            /\ \A score \in {out.mood_score, out.glucose_score, out.nutrition_score,
                             out.overall_score} : 0 <= score /\ score <= 100

\* C22 witness: user 1 with one happy mood of three, the readings 80 and
\* 181 and three different words got mood 3.3, glucose 5.0, nutrition 1.5
\* and overall 3.4 (0.3 x 3.33 + 0.4 x 5 + 0.3 x 1.5 = 3.45).
C22_Witness ==
    /\ HealthScoreReturned
    /\ probe.arg = Some(1)
    /\ Len(ScoreRows(pg.mood_logs, 1)) = 3
    /\ Len(ScoreRows(pg.cgm_readings, 1)) = 2
    /\ Len(ScoreRows(pg.food_logs, 1)) = 2
    /\ probe.out[1].mood_score = 33
    /\ probe.out[1].glucose_score = 50
    /\ probe.out[1].nutrition_score = 15
    /\ probe.out[1].overall_score = 34

\* C23: when the health score and the CGM handler's get_stats have read the
\* same readings of a user (at least one), the glucose score is one tenth
\* of the time-in-range percentage: both are, to the decimal they round to,
\* the same share of the readings.
C23_SameBand ==
    (/\ HealthScoreReturned
     /\ last.agent = "cgm" /\ last.action = "get_stats"
     /\ last.user_id = probe.arg[1]
     /\ last.resp.success
     /\ last.resp.cgm_stats.total_readings > 0)
    => \E h \in 0..last.resp.cgm_stats.total_readings :
           /\ NearTenths(probe.out[1].glucose_score,
                         100 * h, last.resp.cgm_stats.total_readings)
           /\ NearTenths(last.resp.cgm_stats.time_in_range,
                         1000 * h, last.resp.cgm_stats.total_readings)

\* the last call ended with an exception that left the handler
Escaped == "error" \in DOMAIN last.resp /\ last.resp.error = "exception"

\* the last call sent a statement to a store that was unreachable or
\* rejected it (a router call that returned tells whether it used a store)
StoreFailed ==
    /\ ~last.store_ok
    /\ "store_used" \in DOMAIN last.resp => last.resp.store_used

\* C24: a handler call during which the store was unreachable or rejected
\* a statement returns a failure envelope with success=false; no exception
\* leaves the handler.
C24_StoreFailureAnswered ==
    StoreFailed => (~last.resp.success /\ ~Escaped)

\* every row of the table before is, unchanged and at its place, in the
\* table after
Appended(before, after) ==
    /\ Len(after) >= Len(before)
    /\ SubSeq(after, 1, Len(before)) = before

\* C25: every handler call leaves the existing rows of mood_logs,
\* cgm_readings, food_logs and meal_plans as they are (rows are only
\* appended) and leaves users as it is; a get_stats, get_latest or greeting
\* call leaves every table unchanged.
C25_AppendOnly ==
    [][ /\ Appended(mood_logs, mood_logs')
        /\ Appended(cgm_readings, cgm_readings')
        /\ Appended(food_logs, food_logs')
        /\ Appended(meal_plans, meal_plans')
        /\ users' = users
        /\ last'.action \in {"get_stats", "get_latest", "greet"} =>
               UNCHANGED <<mood_logs, cgm_readings, food_logs, meal_plans>> ]_vars

\* C25 witness: user 1 has two readings, the second logged after the
\* first, and the last call was the CGM get_stats that reports both.
C25_Witness ==
    /\ Len(cgm_readings) = 2
    /\ cgm_readings[1].user_id = 1 /\ cgm_readings[2].user_id = 1
    /\ last.agent = "cgm" /\ last.action = "get_stats"
    /\ last.resp.success
    /\ last.resp.cgm_stats.total_readings = 2

\* C30: a call of the mood, CGM, food or meal-plan handler that returns
\* success=false leaves users and the four log tables as they were.
C30_FailureLeavesTables ==
    [][ (/\ last'.agent \in {"mood", "cgm", "food", "meal"}
         /\ ~last'.resp.success
         /\ ~Escaped')
        => UNCHANGED <<users, mood_logs, cgm_readings, food_logs, meal_plans>> ]_vars

\* C30 witness: with one mood row in the table, a 'generate' of user 1 whose
\* INSERT failed was answered with database_error, and meal_plans is empty.
C30_Witness ==
    /\ last.agent = "meal" /\ last.action = "generate"
    /\ last.user_id = 1
    /\ ~last.resp.success
    /\ last.resp.error = "database_error"
    /\ ~last.store_ok
    /\ meal_plans = <<>>
    /\ Len(mood_logs) = 1

\* the rows of its table that hold the value of a log request of user 1,
\* counted
RowsHolding(request) ==
    IF request.agent = "mood"
    THEN Cardinality({i \in 1..Len(mood_logs) :
                         /\ mood_logs[i].user_id = 1
                         /\ mood_logs[i].mood = request.mood})
    ELSE Cardinality({i \in 1..Len(cgm_readings) :
                         /\ cgm_readings[i].user_id = 1
                         /\ cgm_readings[i].glucose_reading = request.glucose_reading})

\* the requests in flight that have committed the value of the request
Committed(request) ==
    {p \in DOMAIN conns :
        /\ conns[p].request = request
        /\ conns[p].pc = "committed" \/ (conns[p].pc = "done" /\ conns[p].resp.success)}

\* every request in flight has been answered
AllAnswered == conns # <<>> /\ \A p \in DOMAIN conns : conns[p].pc = "done"

MeanTrend(values, tnum, tden, up, down) ==
    IF Len(values) < 4 THEN "stable"
    ELSE LET n == Len(values)
             half == n \div 2
             rest == n - half
             first == Sum(SubSeq(values, 1, half))
             others == Sum(SubSeq(values, half + 1, n))
         IN  IF first * rest * tden > others * half * tden + tnum * half * rest
             THEN up
             ELSE IF first * rest * tden < others * half * tden - tnum * half * rest
             THEN down
             ELSE "stable"

\* the rows of the user within the window of the call
InWindowOf(table, call) ==
    {i \in 1..Len(table) : /\ table[i].user_id = call.user_id
                           /\ table[i].timestamp >= call.at - HistoryDays}

MostRecentFirst(history) ==
    \A i \in 1..(Len(history) - 1) : history[i].timestamp >= history[i + 1].timestamp

\* C27: the trend of the mood and CGM get_stats operations is taken over the
\* window ordered most recent first: stable under 4 entries, otherwise the
\* mean of the first floor(n/2) entries against the mean of the rest, with
\* the threshold 0.5 for mood scores and 15 for glucose readings
C27_TrendOfWindow ==
    /\ (/\ last.agent = "mood" /\ last.action = "get_stats"
        /\ last.resp.success /\ last.store_ok)
       => LET history == last.resp.mood_history
          IN  /\ Len(history) = Cardinality(InWindowOf(mood_logs, last))
              /\ MostRecentFirst(history)
              /\ last.resp.mood_stats.trend =
                     MeanTrend([i \in 1..Len(history) |-> history[i].score],
                               1, 2, "improving", "declining")
    /\ (/\ last.agent = "cgm" /\ last.action = "get_stats"
        /\ last.resp.success /\ last.store_ok)
       => LET history == last.resp.cgm_history
          IN  /\ Len(history) = Cardinality(InWindowOf(cgm_readings, last))
              /\ MostRecentFirst(history)
              /\ last.resp.cgm_stats.trend =
                     MeanTrend([i \in 1..Len(history) |-> history[i].glucose_reading],
                               15, 1, "rising", "falling")

\* the two statuses whose message templates begin with ALERT
AlertStatuses == {"critically_low", "critically_high"}

\* C28: for every reading the CGM 'log' action accepts or 'generate'
\* produces, alert_flag is true exactly when the returned status is
\* critically_low or critically_high, that is when the message is one of
\* the two ALERT messages (the statement of the claim, which the code does
\* not meet: the flag is raised above critical_high = 300, the status above
\* 250).
C28_AlertFlagIsCriticalStatus ==
    (/\ last.agent = "cgm"
     /\ last.action \in {"log", "generate"}
     /\ last.resp.success)
    => /\ last.resp.alert_flag <=> (last.resp.status \in AlertStatuses)
       /\ last.resp.alert_flag <=> (last.resp.message.template \in AlertStatuses)

\* the estimated_nutrition of a meal of a plan, nothing for a meal that is
\* not a dict or has none
NutritionOfMeal(meal) ==
    IF meal.t = "dict" /\ meal.estimated_nutrition # None
    THEN meal.estimated_nutrition[1] ELSE ZeroNutrition

\* the keys of daily_totals and of estimated_nutrition
TotalsFields == {"calories", "carbs", "protein", "fat", "fiber"}

\* C29: in every plan produced by the text parsing of
\* parse_meal_plan_response or by generate_fallback_meal_plan each field of
\* daily_totals is the sum of that field over the estimated_nutrition of
\* breakfast, lunch and dinner, also when two sections of the reply name
\* the same meal (the statement of the claim, which the code does not meet:
\* the second section replaces the meal and its nutrition is added to the
\* totals a second time).
C29_TotalsAreSumOfMeals ==
    (/\ last.agent = "meal" /\ last.action = "generate" /\ last.resp.success
     /\ last.arg.kind \in {"text", "raise"})
    => LET plan == last.resp.meal_plan
       IN  /\ plan.daily_totals # None
           /\ \A f \in TotalsFields :
                 plan.daily_totals[1][f] = NutritionOfMeal(plan.breakfast)[f]
                                           + NutritionOfMeal(plan.lunch)[f]
                                           + NutritionOfMeal(plan.dinner)[f]

====
